---- MODULE Spec2Model ----
(***************************************************************************)
(* Model of the chat worker (cloudflare-workers/worker.js): the message    *)
(* store kept in the CHAT_DB key-value namespace, the request counter kept *)
(* in the RATE_LIMIT namespace, the prompt built for the completion API    *)
(* and the sendMessage / clearConversation / conversation resolvers.       *)
(*                                                                         *)
(* Representation.                                                         *)
(*  - CHAT_DB is a record of two finite maps from key strings: lists      *)
(*    holds the keys conv:<c> (the JSON array of message ids), recs the    *)
(*    keys msg:<c>:<id> (the JSON message).  A key that is not in the      *)
(*    DOMAIN is absent (get returns null).  The two key families differ    *)
(*    in their first character.                                            *)
(*  - RATE_LIMIT maps the key rate:<identity> to [value, expiration]:      *)
(*    value is the decimal string written by put, expiration the instant   *)
(*    (kvTime) at which the key stops being returned (put time +           *)
(*    expirationTtl).                                                      *)
(*  - now is the reading of the worker's wall clock (Date); it follows     *)
(*    kvTime but can be stepped back.  Timestamps are stored in the        *)
(*    toISOString form, here the pair of whole seconds and milliseconds.   *)
(*  - message ids are Date.now()+Math.random() strings: fresh, unordered;  *)
(*    here the value of the counter nextId.                                *)
(*  - text is represented by its length.                                   *)
(*  - procs holds, for each request running concurrently with others, the  *)
(*    position it is suspended at (the await it executes next) and its     *)
(*    local variables.                                                     *)
(*  - client is the chat component of the browser (AIChatWithGraphQL.tsx): *)
(*    its React state and the invocations of its handlers.                 *)
(***************************************************************************)
EXTENDS Integers, Sequences, FiniteSets, TLC

VARIABLES CHAT_DB, RATE_LIMIT, now, kvTime, nextId, res, log, win, steps, faults, procs, client

vars == <<CHAT_DB, RATE_LIMIT, now, kvTime, nextId, res, log, win, steps, faults, procs, client>>

(***************************************************************************)
(* Program constants                                                       *)
(***************************************************************************)
Capacity == 100

HistoryWindow == 20

limit == 30

window == 60

MaxMessageLength == 2000

MsPerSecond == 1000

(***************************************************************************)
(* Bounds of the model                                                     *)
(***************************************************************************)
InitNow == 1000

MaxSteps == 3

MaxChatSteps == 2

MaxFaults == 1

MaxElapsed == 1

MaxHistory == 25

MaxRequests == 32

MaxTime == 140

TickStep == 20

ConvIds == {"c1", "c2"}

(***************************************************************************)
(* Date: toISOString and new Date(string)                                  *)
(***************************************************************************)
ToISOString(t) == [sec |-> t \div MsPerSecond, ms |-> t % MsPerSecond]

DateParse(s) == s.sec * MsPerSecond + s.ms

(***************************************************************************)
(* Array.prototype.sort with the comparator of getConversationMessages:    *)
(* a stable sort on the parsed timestamp.  The result of a stable sort is  *)
(* unique: the elements grouped by increasing key, each group in input     *)
(* order.                                                                  *)
(***************************************************************************)
TimestampsOf(ms) == {DateParse(ms[i].timestamp) : i \in DOMAIN ms}

MinOf(S) == CHOOSE x \in S : \A y \in S : x <= y

RECURSIVE SortGroups(_, _)
SortGroups(ms, keys) ==
    IF keys = {} THEN <<>>
    ELSE LET k == MinOf(keys)
             HasKey(m) == DateParse(m.timestamp) = k
         IN  SelectSeq(ms, HasKey) \o SortGroups(ms, keys \ {k})

SortByTimestamp(ms) == SortGroups(ms, TimestampsOf(ms))

(***************************************************************************)
(* KV namespace CHAT_DB                                                    *)
(***************************************************************************)
EmptyDb == [lists |-> <<>>, recs |-> <<>>]

MapPut(f, k, v) == (k :> v) @@ f

MapDelete(f, k) == [x \in (DOMAIN f) \ {k} |-> f[x]]

(***************************************************************************)
(* The keys: the template strings `conv:${conversationId}`,                *)
(* `msg:${conversationId}:${id}` and `rate:${clientIP}`.  A conversation   *)
(* id and an identity are whatever string the client sent; a message id    *)
(* is generated by the worker and holds no colon.                          *)
(***************************************************************************)
listKey_Shared(conversationId) == "conv:"

listKey(conversationId) == "conv:" \o conversationId

messageKey(conversationId, id) == "msg:" \o conversationId \o ":" \o ToString(id)

rateKey(clientIP) == "rate:" \o clientIP

PutRecord(db, m) == [db EXCEPT !.recs = MapPut(db.recs, messageKey(m.conversationId, m.id), m)]

DeleteRecord(db, c, id) == [db EXCEPT !.recs = MapDelete(db.recs, messageKey(c, id))]

PutList(db, c, ids) == [db EXCEPT !.lists = MapPut(db.lists, listKey(c), ids)]

DeleteList(db, c) == [db EXCEPT !.lists = MapDelete(db.lists, listKey(c))]

HasList(db, c) == listKey(c) \in DOMAIN db.lists

HasRecord(db, c, id) == messageKey(c, id) \in DOMAIN db.recs

(***************************************************************************)
(* saveMessage.  fault names the store call that throws, if any.           *)
(***************************************************************************)
SaveFaults == {"putRecord", "getList", "deleteEvicted", "putList"}

saveMessage(db, m, fault) ==
    LET c == m.conversationId
        db1 == PutRecord(db, m)
        existing == IF HasList(db1, c) THEN db1.lists[listKey(c)] ELSE <<>>
        pushed == Append(existing, m.id)
        evicts == Len(pushed) > Capacity
        messageIds == IF evicts THEN Tail(pushed) ELSE pushed
        db2 == IF evicts THEN DeleteRecord(db1, c, Head(pushed)) ELSE db1
    IN  IF fault = "putRecord" THEN [db |-> db, threw |-> TRUE]
        ELSE IF fault = "getList" THEN [db |-> db1, threw |-> TRUE]
        ELSE IF evicts /\ fault = "deleteEvicted" THEN [db |-> db1, threw |-> TRUE]
        ELSE IF fault = "putList" THEN [db |-> db2, threw |-> TRUE]
        ELSE [db |-> PutList(db2, c, messageIds), threw |-> FALSE]

(***************************************************************************)
(* getConversationMessages.  A read changes nothing, so a fault only makes *)
(* the call throw.                                                         *)
(***************************************************************************)
CollectMessages(db, c, ids) ==
    LET keys == DOMAIN db.recs
        Found(id) == messageKey(c, id) \in keys
        found == SelectSeq(ids, Found)
    IN  [i \in 1..Len(found) |-> db.recs[messageKey(c, found[i])]]

getConversationMessages_UnknownThrows(db, c, fault) ==
    IF fault = "getList" THEN [value |-> <<>>, threw |-> TRUE]
    ELSE IF ~HasList(db, c) THEN [value |-> <<>>, threw |-> TRUE]
    ELSE IF fault = "getRecord" /\ db.lists[listKey(c)] # <<>> THEN [value |-> <<>>, threw |-> TRUE]
    ELSE [value |-> SortByTimestamp(CollectMessages(db, c, db.lists[listKey(c)])), threw |-> FALSE]

getConversationMessages(db, c, fault) ==
    IF fault = "getList" THEN [value |-> <<>>, threw |-> TRUE]
    ELSE IF ~HasList(db, c) THEN [value |-> <<>>, threw |-> FALSE]
    ELSE IF fault = "getRecord" /\ db.lists[listKey(c)] # <<>> THEN [value |-> <<>>, threw |-> TRUE]
    ELSE [value |-> SortByTimestamp(CollectMessages(db, c, db.lists[listKey(c)])), threw |-> FALSE]

(***************************************************************************)
(* clearConversationMessages.  fault names the failing call; for           *)
(* "deleteRecord" k is the position in the id-list of the delete that      *)
(* throws.                                                                 *)
(***************************************************************************)
DeleteRecords(db, c, ids) ==
    LET keys == {messageKey(c, ids[i]) : i \in DOMAIN ids}
    IN  [db EXCEPT !.recs = [x \in (DOMAIN db.recs) \ keys |-> db.recs[x]]]

clearConversationMessages_KeepsList(db, c, fault, k) ==
    IF fault = "getList" THEN [db |-> db, threw |-> TRUE]
    ELSE IF ~HasList(db, c) THEN [db |-> db, threw |-> FALSE]
    ELSE LET ids == db.lists[listKey(c)]
         IN  IF fault = "deleteRecord" /\ k \in 1..Len(ids)
             THEN [db |-> DeleteRecords(db, c, SubSeq(ids, 1, k - 1)), threw |-> TRUE]
             ELSE IF fault = "deleteList"
             THEN [db |-> DeleteRecords(db, c, ids), threw |-> TRUE]
             ELSE [db |-> DeleteRecords(db, c, ids), threw |-> FALSE]

clearConversationMessages_CreatesList(db, c, fault, k) ==
    IF fault = "getList" THEN [db |-> db, threw |-> TRUE]
    ELSE IF ~HasList(db, c) THEN [db |-> PutList(db, c, <<>>), threw |-> FALSE]
    ELSE LET ids == db.lists[listKey(c)]
         IN  IF fault = "deleteRecord" /\ k \in 1..Len(ids)
             THEN [db |-> DeleteRecords(db, c, SubSeq(ids, 1, k - 1)), threw |-> TRUE]
             ELSE IF fault = "deleteList"
             THEN [db |-> DeleteRecords(db, c, ids), threw |-> TRUE]
             ELSE [db |-> DeleteList(DeleteRecords(db, c, ids), c), threw |-> FALSE]

clearConversationMessages(db, c, fault, k) ==
    IF fault = "getList" THEN [db |-> db, threw |-> TRUE]
    ELSE IF ~HasList(db, c) THEN [db |-> db, threw |-> FALSE]
    ELSE LET ids == db.lists[listKey(c)]
         IN  IF fault = "deleteRecord" /\ k \in 1..Len(ids)
             THEN [db |-> DeleteRecords(db, c, SubSeq(ids, 1, k - 1)), threw |-> TRUE]
             ELSE IF fault = "deleteList"
             THEN [db |-> DeleteRecords(db, c, ids), threw |-> TRUE]
             ELSE [db |-> DeleteList(DeleteRecords(db, c, ids), c), threw |-> FALSE]

(***************************************************************************)
(* Number.prototype.toString and parseInt on the counter value: decimal    *)
(* digits, most significant first.                                         *)
(***************************************************************************)
RECURSIVE NumberToString(_)
NumberToString(n) == IF n < 10 THEN <<n>> ELSE Append(NumberToString(n \div 10), n % 10)

RECURSIVE ParseInt(_)
ParseInt(s) ==
    IF Len(s) = 1 THEN s[1]
    ELSE 10 * ParseInt(SubSeq(s, 1, Len(s) - 1)) + s[Len(s)]

(***************************************************************************)
(* KV namespace RATE_LIMIT: get at instant t, put with expirationTtl       *)
(***************************************************************************)
KvLive(kv, key, t) == key \in DOMAIN kv /\ t < kv[key].expiration

KvPutTtl(kv, key, v, t, ttl) == MapPut(kv, key, [value |-> v, expiration |-> t + ttl])

(***************************************************************************)
(* checkRateLimit at instant t.  fault names the RATE_LIMIT call that      *)
(* throws, if any; the catch block answers allowed.  calls is the number   *)
(* of RATE_LIMIT calls made.                                               *)
(***************************************************************************)
RateFaults == {"get", "put"}

checkRateLimit_OffByOne(kv, clientIP, t, fault) ==
    LET key == rateKey(clientIP)
        count == IF KvLive(kv, key, t) THEN ParseInt(kv[key].value) ELSE 0
    IN  IF fault = "get" THEN [kv |-> kv, calls |-> 1, result |-> [allowed |-> TRUE]]
        ELSE IF count > limit
        THEN [kv |-> kv, calls |-> 1, result |-> [allowed |-> FALSE, resetTime |-> window]]
        ELSE IF fault = "put" THEN [kv |-> kv, calls |-> 2, result |-> [allowed |-> TRUE]]
        ELSE [kv |-> KvPutTtl(kv, key, NumberToString(count + 1), t, window),
              calls |-> 2,
              result |-> [allowed |-> TRUE, remaining |-> limit - count - 1]]

checkRateLimit_FailClosed(kv, clientIP, t, fault) ==
    LET key == rateKey(clientIP)
        count == IF KvLive(kv, key, t) THEN ParseInt(kv[key].value) ELSE 0
        closed == [allowed |-> FALSE, resetTime |-> window]
    IN  IF fault = "get" THEN [kv |-> kv, calls |-> 1, result |-> closed]
        ELSE IF count >= limit
        THEN [kv |-> kv, calls |-> 1, result |-> [allowed |-> FALSE, resetTime |-> window]]
        ELSE IF fault = "put" THEN [kv |-> kv, calls |-> 2, result |-> closed]
        ELSE [kv |-> KvPutTtl(kv, key, NumberToString(count + 1), t, window),
              calls |-> 2,
              result |-> [allowed |-> TRUE, remaining |-> limit - count - 1]]

checkRateLimit_RenewsOnReject(kv, clientIP, t, fault) ==
    LET key == rateKey(clientIP)
        count == IF KvLive(kv, key, t) THEN ParseInt(kv[key].value) ELSE 0
    IN  IF fault = "get" THEN [kv |-> kv, calls |-> 1, result |-> [allowed |-> TRUE]]
        ELSE IF count >= limit
        THEN [kv |-> KvPutTtl(kv, key, NumberToString(count), t, window), calls |-> 2,
              result |-> [allowed |-> FALSE, resetTime |-> window]]
        ELSE IF fault = "put" THEN [kv |-> kv, calls |-> 2, result |-> [allowed |-> TRUE]]
        ELSE [kv |-> KvPutTtl(kv, key, NumberToString(count + 1), t, window),
              calls |-> 2,
              result |-> [allowed |-> TRUE, remaining |-> limit - count - 1]]

checkRateLimit(kv, clientIP, t, fault) ==
    LET key == rateKey(clientIP)
        count == IF KvLive(kv, key, t) THEN ParseInt(kv[key].value) ELSE 0
    IN  IF fault = "get" THEN [kv |-> kv, calls |-> 1, result |-> [allowed |-> TRUE]]
        ELSE IF count >= limit
        THEN [kv |-> kv, calls |-> 1, result |-> [allowed |-> FALSE, resetTime |-> window]]
        ELSE IF fault = "put" THEN [kv |-> kv, calls |-> 2, result |-> [allowed |-> TRUE]]
        ELSE [kv |-> KvPutTtl(kv, key, NumberToString(count + 1), t, window),
              calls |-> 2,
              result |-> [allowed |-> TRUE, remaining |-> limit - count - 1]]

(***************************************************************************)
(* estimateTokens: Math.ceil(length / 1.5)                                 *)
(***************************************************************************)
estimateTokens(len) == (2 * len + 2) \div 3

(***************************************************************************)
(* The message objects sendMessage builds (lines 177-185 and 199-207)      *)
(***************************************************************************)
UserMessage(id, c, content, t) ==
    [id |-> id, content |-> content, role |-> "USER", timestamp |-> ToISOString(t),
     conversationId |-> c, model |-> "null", tokens |-> estimateTokens(content)]

AiMessage(id, c, content, t, model, tokens) ==
    [id |-> id, content |-> content, role |-> "ASSISTANT", timestamp |-> ToISOString(t),
     conversationId |-> c, model |-> model, tokens |-> tokens]

(***************************************************************************)
(* callDeepSeekAPI: the prompt (requestBody.messages)                      *)
(***************************************************************************)
SystemPromptLength == 38

ToLowerCase(role) ==
    CASE role = "USER" -> "user"
      [] role = "ASSISTANT" -> "assistant"
      [] role = "SYSTEM" -> "system"
      [] OTHER -> role

RecentHistory_Oldest(history) ==
    IF Len(history) <= HistoryWindow THEN history
    ELSE SubSeq(history, 1, HistoryWindow)

RecentHistory(history) ==
    IF Len(history) <= HistoryWindow THEN history
    ELSE SubSeq(history, Len(history) - HistoryWindow + 1, Len(history))

PromptMessages(message, history) ==
    LET recentHistory == RecentHistory(history)
    IN  <<[role |-> "system", content |-> SystemPromptLength]>>
        \o [i \in 1..Len(recentHistory) |->
               [role |-> ToLowerCase(recentHistory[i].role),
                content |-> recentHistory[i].content]]
        \o <<[role |-> "user", content |-> message]>>

(***************************************************************************)
(* callDeepSeekAPI: the HTTP exchange.  upstream is what the completion    *)
(* API does with the request: kind "ok" carries the reply (content and,    *)
(* when hasUsage, the usage object), "network" is a rejected fetch,        *)
(* "status" a response that is not ok, "noChoices" a body without          *)
(* choices[0], "noMessage" a choices[0] without a message object.          *)
(* fetches is the number of calls of fetch made.                           *)
(***************************************************************************)
NoUsage == [present |-> FALSE, prompt_tokens |-> 0, completion_tokens |-> 0, total_tokens |-> 0]

callDeepSeekAPI_Retries(message, history, model, temperature, maxTokens, upstream) ==
    LET requestBody == [model |-> model, messages |-> PromptMessages(message, history),
                        temperature |-> temperature, max_tokens |-> maxTokens]
    IN  IF upstream.kind = "ok"
        THEN [threw |-> FALSE, fetches |-> 1, requestBody |-> requestBody, content |-> upstream.content,
              usage |-> IF upstream.hasUsage THEN upstream.usage ELSE NoUsage]
        ELSE [threw |-> TRUE, fetches |-> 2, requestBody |-> requestBody, content |-> 0, usage |-> NoUsage]

callDeepSeekAPI(message, history, model, temperature, maxTokens, upstream) ==
    LET requestBody == [model |-> model, messages |-> PromptMessages(message, history),
                        temperature |-> temperature, max_tokens |-> maxTokens]
    IN  IF upstream.kind = "ok"
        THEN [threw |-> FALSE, fetches |-> 1, requestBody |-> requestBody, content |-> upstream.content,
              usage |-> IF upstream.hasUsage THEN upstream.usage ELSE NoUsage]
        ELSE [threw |-> TRUE, fetches |-> 1, requestBody |-> requestBody, content |-> 0, usage |-> NoUsage]

(***************************************************************************)
(* validateMessageInput.  temperature is in tenths (0.7 is 7); a falsy     *)
(* temperature or maxTokens (0) skips its range test.                      *)
(***************************************************************************)
TemperatureMax == 20

MaxTokensMax == 4000

validateMessageInput(input) ==
    IF input.message = 0
    THEN [valid |-> FALSE, error |-> "message must not be empty"]
    ELSE IF input.message > MaxMessageLength
    THEN [valid |-> FALSE, error |-> "message longer than 2000 characters"]
    ELSE IF input.conversationId = ""
    THEN [valid |-> FALSE, error |-> "conversation id must not be empty"]
    ELSE IF input.temperature # 0 /\ (input.temperature < 0 \/ input.temperature > TemperatureMax)
    THEN [valid |-> FALSE, error |-> "temperature must be between 0 and 2"]
    ELSE IF input.maxTokens # 0 /\ (input.maxTokens < 1 \/ input.maxTokens > MaxTokensMax)
    THEN [valid |-> FALSE, error |-> "max tokens must be between 1 and 4000"]
    ELSE [valid |-> TRUE, error |-> ""]

(***************************************************************************)
(* The sendMessage resolver.  rlFault is the fault inside checkRateLimit;  *)
(* fault = <<stage, call>> names the CHAT_DB call that throws in the read  *)
(* of the history ("history"), the save of the user message ("saveUser")   *)
(* or the save of the reply ("saveAi"); clock1 and clock2 are the two      *)
(* readings of the clock, id1 and id2 the two generated ids.  Besides the  *)
(* returned object (result) the record tells what the invocation did:      *)
(* raised (an exception left the resolver), rateCalls, storeTouched,       *)
(* upstreamCalls, the prompt sent, the number of ids generated, the user   *)
(* message built, the seconds quoted in the rate-limit error, the stages   *)
(* entered in order (trace) and the history read.                          *)
(***************************************************************************)
NoFault == <<"none", "none">>

FaultAt(fault, stage) == IF fault[1] = stage THEN fault[2] ELSE "none"

NoMessage ==
    [id |-> 0, content |-> 0, role |-> "none", timestamp |-> ToISOString(0),
     conversationId |-> "", model |-> "null", tokens |-> 0]

Failure(error) == [success |-> FALSE, message |-> NoMessage, error |-> error, usage |-> NoUsage]

sendMessageTry_SaveFirst(db, kv, input, clientIP, t, clock1, clock2, id1, id2, rlFault, fault, upstream) ==
    LET rateLimitCheck == checkRateLimit(kv, clientIP, t, rlFault)
        validation == validateMessageInput(input)
        c == input.conversationId
        userMessage == UserMessage(id1, c, input.message, clock1)
        savedUser == saveMessage(db, userMessage, FaultAt(fault, "saveUser"))
        conversationHistory == getConversationMessages(savedUser.db, c, FaultAt(fault, "history"))
        deepseekResponse == callDeepSeekAPI(input.message, conversationHistory.value, input.model,
                                            input.temperature, input.maxTokens, upstream)
        aiMessage == AiMessage(id2, c, deepseekResponse.content, clock2, input.model,
                               IF deepseekResponse.usage.present
                               THEN deepseekResponse.usage.completion_tokens ELSE 0)
        savedAi == saveMessage(savedUser.db, aiMessage, FaultAt(fault, "saveAi"))
        early == [db |-> db, kv |-> rateLimitCheck.kv, threw |-> FALSE, result |-> Failure(""),
                  rateLimit |-> rateLimitCheck.result, rateCalls |-> rateLimitCheck.calls,
                  valid |-> validation.valid, stage |-> "rateLimit", storeTouched |-> FALSE,
                  upstreamCalls |-> 0, prompt |-> <<>>, ids |-> 0, userMessage |-> NoMessage,
                  retryAfter |-> 0, trace |-> <<"rateLimit">>, history |-> <<>>]
        toSaveUser == <<"rateLimit", "validation", "saveUser">>
        toHistory == Append(toSaveUser, "history")
        toUpstream == Append(toHistory, "upstream")
        toSaveAi == Append(toUpstream, "saveAi")
    IN  IF ~rateLimitCheck.result.allowed
        THEN [early EXCEPT !.result = Failure("too many requests, retry later"),
                           !.retryAfter = rateLimitCheck.result.resetTime]
        ELSE IF ~validation.valid
        THEN [early EXCEPT !.result = Failure(validation.error), !.stage = "validation",
                           !.trace = <<"rateLimit", "validation">>]
        ELSE IF savedUser.threw
        THEN [early EXCEPT !.threw = TRUE, !.stage = "saveUser", !.storeTouched = TRUE,
                           !.db = savedUser.db, !.ids = 1, !.userMessage = userMessage,
                           !.trace = toSaveUser]
        ELSE IF conversationHistory.threw
        THEN [early EXCEPT !.threw = TRUE, !.stage = "history", !.storeTouched = TRUE,
                           !.db = savedUser.db, !.ids = 1, !.userMessage = userMessage,
                           !.trace = toHistory]
        ELSE IF deepseekResponse.threw
        THEN [early EXCEPT !.threw = TRUE, !.stage = "upstream", !.storeTouched = TRUE,
                           !.db = savedUser.db, !.ids = 1, !.userMessage = userMessage,
                           !.upstreamCalls = deepseekResponse.fetches, !.prompt = deepseekResponse.requestBody.messages,
                           !.trace = toUpstream, !.history = conversationHistory.value]
        ELSE IF savedAi.threw
        THEN [early EXCEPT !.threw = TRUE, !.stage = "saveAi", !.storeTouched = TRUE,
                           !.db = savedAi.db, !.ids = 2, !.userMessage = userMessage,
                           !.upstreamCalls = deepseekResponse.fetches, !.prompt = deepseekResponse.requestBody.messages,
                           !.trace = toSaveAi, !.history = conversationHistory.value]
        ELSE [early EXCEPT !.stage = "done", !.storeTouched = TRUE,
                           !.db = savedAi.db, !.ids = 2, !.userMessage = userMessage,
                           !.upstreamCalls = deepseekResponse.fetches, !.prompt = deepseekResponse.requestBody.messages,
                           !.trace = toSaveAi, !.history = conversationHistory.value,
                           !.result = [success |-> TRUE, message |-> aiMessage, error |-> "",
                                       usage |-> deepseekResponse.usage]]

sendMessageTry(db, kv, input, clientIP, t, clock1, clock2, id1, id2, rlFault, fault, upstream) ==
    LET rateLimitCheck == checkRateLimit(kv, clientIP, t, rlFault)
        validation == validateMessageInput(input)
        c == input.conversationId
        conversationHistory == getConversationMessages(db, c, FaultAt(fault, "history"))
        userMessage == UserMessage(id1, c, input.message, clock1)
        savedUser == saveMessage(db, userMessage, FaultAt(fault, "saveUser"))
        deepseekResponse == callDeepSeekAPI(input.message, conversationHistory.value, input.model,
                                            input.temperature, input.maxTokens, upstream)
        aiMessage == AiMessage(id2, c, deepseekResponse.content, clock2, input.model,
                               IF deepseekResponse.usage.present
                               THEN deepseekResponse.usage.completion_tokens ELSE 0)
        savedAi == saveMessage(savedUser.db, aiMessage, FaultAt(fault, "saveAi"))
        early == [db |-> db, kv |-> rateLimitCheck.kv, threw |-> FALSE, result |-> Failure(""),
                  rateLimit |-> rateLimitCheck.result, rateCalls |-> rateLimitCheck.calls,
                  valid |-> validation.valid, stage |-> "rateLimit", storeTouched |-> FALSE,
                  upstreamCalls |-> 0, prompt |-> <<>>, ids |-> 0, userMessage |-> NoMessage,
                  retryAfter |-> 0, trace |-> <<"rateLimit">>, history |-> <<>>]
        toHistory == <<"rateLimit", "validation", "history">>
        toSaveUser == Append(toHistory, "saveUser")
        toUpstream == Append(toSaveUser, "upstream")
        toSaveAi == Append(toUpstream, "saveAi")
    IN  IF ~rateLimitCheck.result.allowed
        THEN [early EXCEPT !.result = Failure("too many requests, retry later"),
                           !.retryAfter = rateLimitCheck.result.resetTime]
        ELSE IF ~validation.valid
        THEN [early EXCEPT !.result = Failure(validation.error), !.stage = "validation",
                           !.trace = <<"rateLimit", "validation">>]
        ELSE IF conversationHistory.threw
        THEN [early EXCEPT !.threw = TRUE, !.stage = "history", !.storeTouched = TRUE,
                           !.trace = toHistory]
        ELSE IF savedUser.threw
        THEN [early EXCEPT !.threw = TRUE, !.stage = "saveUser", !.storeTouched = TRUE,
                           !.db = savedUser.db, !.ids = 1, !.userMessage = userMessage,
                           !.trace = toSaveUser, !.history = conversationHistory.value]
        ELSE IF deepseekResponse.threw
        THEN [early EXCEPT !.threw = TRUE, !.stage = "upstream", !.storeTouched = TRUE,
                           !.db = savedUser.db, !.ids = 1, !.userMessage = userMessage,
                           !.upstreamCalls = deepseekResponse.fetches, !.prompt = deepseekResponse.requestBody.messages,
                           !.trace = toUpstream, !.history = conversationHistory.value]
        ELSE IF savedAi.threw
        THEN [early EXCEPT !.threw = TRUE, !.stage = "saveAi", !.storeTouched = TRUE,
                           !.db = savedAi.db, !.ids = 2, !.userMessage = userMessage,
                           !.upstreamCalls = deepseekResponse.fetches, !.prompt = deepseekResponse.requestBody.messages,
                           !.trace = toSaveAi, !.history = conversationHistory.value]
        ELSE [early EXCEPT !.stage = "done", !.storeTouched = TRUE,
                           !.db = savedAi.db, !.ids = 2, !.userMessage = userMessage,
                           !.upstreamCalls = deepseekResponse.fetches, !.prompt = deepseekResponse.requestBody.messages,
                           !.trace = toSaveAi, !.history = conversationHistory.value,
                           !.result = [success |-> TRUE, message |-> aiMessage, error |-> "",
                                       usage |-> deepseekResponse.usage]]

sendMessageCatch_Rethrow(try) ==
    [raised |-> try.threw] @@ try

sendMessageCatch(try) ==
    [raised |-> FALSE] @@
    (IF try.threw
     THEN [try EXCEPT !.result = Failure("service temporarily unavailable")]
     ELSE try)

sendMessage(db, kv, input, clientIP, t, clock1, clock2, id1, id2, rlFault, fault, upstream) ==
    sendMessageCatch(sendMessageTry(db, kv, input, clientIP, t, clock1, clock2, id1, id2,
                                    rlFault, fault, upstream))

(***************************************************************************)
(* The clearConversation resolver: the catch block answers with the        *)
(* message of the exception the store call raised.                         *)
(***************************************************************************)
KvErrorMessage == "KV request failed"

clearConversationCatch(try) ==
    [db |-> try.db, raised |-> FALSE,
     result |-> IF try.threw THEN [success |-> FALSE, error |-> KvErrorMessage]
                ELSE [success |-> TRUE, error |-> ""]]

clearConversation(db, id, fault, k) ==
    clearConversationCatch(clearConversationMessages(db, id, fault, k))

(***************************************************************************)
(* The conversation query resolver: null when the read throws.             *)
(***************************************************************************)
conversation(db, id, fault) ==
    LET read == getConversationMessages(db, id, fault)
    IN  [isNull |-> read.threw, messages |-> read.value, messageCount |-> Len(read.value)]

(***************************************************************************)
(* The store after n successful appends to conversation c1 of an empty     *)
(* store (alternately a user message and a reply), n <= Capacity:          *)
(* saveMessage(Prefill(n - 1), PrefillMessage(n), "none").db = Prefill(n). *)
(***************************************************************************)
PrefillMessage(i) ==
    IF i % 2 = 1 THEN UserMessage(i, "c1", i, InitNow)
    ELSE AiMessage(i, "c1", i, InitNow, "deepseek-chat", 3)

Prefill(n) ==
    [lists |-> IF n = 0 THEN <<>> ELSE (listKey("c1") :> [i \in 1..n |-> i]),
     recs |-> [key \in {messageKey("c1", i) : i \in 1..n} |->
                  PrefillMessage(CHOOSE i \in 1..n : messageKey("c1", i) = key)]]

PrefillLog(n) == [c \in ConvIds |-> IF c = "c1" THEN [i \in 1..n |-> PrefillMessage(i)] ELSE <<>>]

LastN(s, n) == IF Len(s) <= n THEN s ELSE SubSeq(s, Len(s) - n + 1, Len(s))

IdsOf(ms) == [i \in 1..Len(ms) |-> ms[i].id]

ListOf(db, c) == IF HasList(db, c) THEN db.lists[listKey(c)] ELSE <<>>

Brief(r) == [op |-> r.op, conv |-> r.conv, threw |-> r.threw, size |-> Len(r.prior)]

NoWin == [start |-> 0, n |-> 0, faulted |-> FALSE, last |-> -1]

(***************************************************************************)
(* The requests in progress: the await each executes next (pc) and the     *)
(* locals of saveMessage (message, messageIds, removedId, and seen: the    *)
(* id-list as it was read), of clearConversationMessages (ids, and i: the  *)
(* position of the loop) and of checkRateLimit (clientIP, count).  stage   *)
(* is the place in sendMessage a saveMessage was called from ("user" or    *)
(* "ai"), empty for a saveMessage called on its own.                       *)
(***************************************************************************)
Procs == {"p1", "p2"}

Idle ==
    [pc |-> "idle", conv |-> "", message |-> NoMessage, messageIds |-> <<>>, removedId |-> 0,
     seen |-> <<>>, ids |-> <<>>, i |-> 0, clientIP |-> "", count |-> 0, stage |-> ""]

NoProcs == [p \in Procs |-> Idle]

(***************************************************************************)
(* The chat component before it is mounted: the initial values of its      *)
(* useState hooks.  mount is the position of the initializeChat started    *)
(* by the mount effect, created the number of conversation ids the server  *)
(* has handed out, requests the sendMessage requests posted, calls the     *)
(* invocations of handleSendMessage; text is a sequence of characters.     *)
(***************************************************************************)
NoClient ==
    [conversationId |-> "", inputValue |-> <<>>, isLoading |-> FALSE, messages |-> <<>>,
     error |-> "", mount |-> "none", created |-> 0, requests |-> <<>>, calls |-> <<>>]

InitRes ==
    [op |-> "init", conv |-> "", threw |-> FALSE, messages |-> <<>>, prior |-> <<>>,
     prev |-> [op |-> "none", conv |-> "", threw |-> FALSE, size |-> 0]]

(***************************************************************************)
(* The message store on its own: direct calls of saveMessage,              *)
(* getConversationMessages and clearConversationMessages, one after the    *)
(* other, and the wall clock moving between them.  log[c] is the sequence  *)
(* of messages appended to c since its last clear; res describes the last  *)
(* call (prior: the id-list before it, prev: the call before it; for a     *)
(* clear, hadList: the id-list existed, changed: the store was modified).  *)
(***************************************************************************)
InitStore ==
    \E n \in 0..Capacity :
        /\ CHAT_DB = Prefill(n)
        /\ log = PrefillLog(n)
        /\ nextId = n + 1
        /\ RATE_LIMIT = <<>>
        /\ now = InitNow
        /\ kvTime = 0
        /\ res = InitRes
        /\ win = NoWin
        /\ steps = 0
        /\ faults = 0
        /\ procs = NoProcs
        /\ client = NoClient

StoreAppend(c) ==
    LET m == IF nextId % 2 = 1 THEN UserMessage(nextId, c, 5, now)
             ELSE AiMessage(nextId, c, 8, now, "deepseek-chat", 3)
        r == saveMessage(CHAT_DB, m, "none")
    IN  /\ steps < MaxSteps
        /\ CHAT_DB' = r.db
        /\ nextId' = nextId + 1
        /\ log' = [log EXCEPT ![c] = Append(@, m)]
        /\ res' = [op |-> "append", conv |-> c, threw |-> r.threw, messages |-> <<m>>,
                   prior |-> ListOf(CHAT_DB, c), prev |-> Brief(res)]
        /\ steps' = steps + 1
        /\ UNCHANGED <<client, procs, RATE_LIMIT, now, kvTime, win, faults>>

StoreRead_Bumps(c) ==
    LET r == getConversationMessages(CHAT_DB, c, "none")
    IN  /\ steps < MaxSteps
        /\ res' = [op |-> "read", conv |-> c, threw |-> r.threw, messages |-> r.value,
                   prior |-> ListOf(CHAT_DB, c), prev |-> Brief(res)]
        /\ steps' = steps + 1
        /\ CHAT_DB' = (IF r.value = <<>> THEN CHAT_DB
                       ELSE PutList(CHAT_DB, c, Append(Tail(ListOf(CHAT_DB, c)), Head(ListOf(CHAT_DB, c)))))
        /\ UNCHANGED <<client, procs, RATE_LIMIT, now, kvTime, nextId, log, win, faults>>

StoreRead(c) ==
    LET r == getConversationMessages(CHAT_DB, c, "none")
    IN  /\ steps < MaxSteps
        /\ res' = [op |-> "read", conv |-> c, threw |-> r.threw, messages |-> r.value,
                   prior |-> ListOf(CHAT_DB, c), prev |-> Brief(res)]
        /\ steps' = steps + 1
        /\ UNCHANGED <<client, procs, CHAT_DB, RATE_LIMIT, now, kvTime, nextId, log, win, faults>>

StoreClear(c) ==
    LET r == clearConversationMessages(CHAT_DB, c, "none", 0)
    IN  /\ steps < MaxSteps
        /\ CHAT_DB' = r.db
        /\ log' = [log EXCEPT ![c] = <<>>]
        /\ res' = [op |-> "clear", conv |-> c, threw |-> r.threw, messages |-> <<>>,
                   prior |-> ListOf(CHAT_DB, c), prev |-> Brief(res),
                   hadList |-> HasList(CHAT_DB, c), changed |-> r.db # CHAT_DB]
        /\ steps' = steps + 1
        /\ UNCHANGED <<client, procs, RATE_LIMIT, now, kvTime, nextId, win, faults>>

(***************************************************************************)
(* The wall clock read by new Date(): it advances, and it can be set back  *)
(* (clock correction, or the next request served by a machine whose clock  *)
(* is behind).                                                             *)
(***************************************************************************)
AdvanceClock(budget) ==
    /\ steps < budget
    /\ now' = now + 1
    /\ steps' = steps + 1
    /\ UNCHANGED <<client, procs, CHAT_DB, RATE_LIMIT, kvTime, nextId, res, log, win, faults>>

SetClockBack(budget) ==
    /\ steps < budget
    /\ now > 0
    /\ now' = now - 1
    /\ steps' = steps + 1
    /\ UNCHANGED <<client, procs, CHAT_DB, RATE_LIMIT, kvTime, nextId, res, log, win, faults>>

ClockTick == AdvanceClock(MaxSteps)

ClockStepBack == SetClockBack(MaxSteps)

NextStore ==
    \/ \E c \in ConvIds : StoreAppend(c)
    \/ \E c \in ConvIds : StoreRead(c)
    \/ \E c \in ConvIds : StoreClear(c)
    \/ ClockTick
    \/ ClockStepBack

SpecStore == InitStore /\ [][NextStore]_vars

(***************************************************************************)
(* C1: after N > 100 appends to a conversation and no clear, a read        *)
(* returns exactly the 100 most recently appended messages in append       *)
(* order, and no record of an evicted id is left in the store.             *)
(***************************************************************************)
C1_ReadReturnsLast100InAppendOrder ==
    (res.op = "read" /\ Len(log[res.conv]) > Capacity) =>
        /\ res.messages = LastN(log[res.conv], Capacity)
        /\ \A i \in 1..(Len(log[res.conv]) - Capacity) :
               ~HasRecord(CHAT_DB, res.conv, log[res.conv][i].id)

(***************************************************************************)
(* C2: a read returns the retained messages in the order they were         *)
(* appended, whatever timestamps the clock gave them: sorting by timestamp *)
(* never changes the order of the id-list.                                 *)
(***************************************************************************)
C2_SortKeepsIdListOrder ==
    res.op = "read" =>
        /\ IdsOf(res.messages) = ListOf(CHAT_DB, res.conv)
        /\ res.messages = LastN(log[res.conv], Len(res.messages))

(***************************************************************************)
(* C10: after a clear that met no storage failure the store holds neither  *)
(* the id-list nor any record the id-list referenced, and a read returns   *)
(* the empty sequence, whatever the size of the conversation was.          *)
(***************************************************************************)
C10_ClearLeavesNothingToRead ==
    /\ (res.op = "clear" /\ ~res.threw) =>
           /\ ~HasList(CHAT_DB, res.conv)
           /\ \A i \in DOMAIN res.prior : ~HasRecord(CHAT_DB, res.conv, res.prior[i])
    /\ (res.op = "read" /\ res.prev.op = "clear" /\ res.prev.conv = res.conv /\ ~res.prev.threw) =>
           /\ ~res.threw
           /\ res.messages = <<>>

C10_Witness ==
    /\ res.op = "read"
    /\ res.prev.op = "clear"
    /\ res.prev.conv = res.conv
    /\ res.prev.size = Capacity
    /\ res.messages = <<>>

(***************************************************************************)
(* C21: clear is idempotent.  Clearing a conversation that is unknown or   *)
(* already cleared succeeds without error and leaves the store unchanged,  *)
(* and a clear applied twice in a row leaves the store as one clear does.  *)
(***************************************************************************)
C21_ClearIsIdempotent ==
    res.op = "clear" =>
        LET again == clearConversationMessages(CHAT_DB, res.conv, "none", 0)
        IN  /\ ~res.hadList => (~res.threw /\ ~res.changed)
            /\ (res.prev.op = "clear" /\ res.prev.conv = res.conv) => (~res.threw /\ ~res.changed)
            /\ ~again.threw
            /\ again.db = CHAT_DB

C21_Witness ==
    /\ res.op = "clear"
    /\ res.prev.op = "clear"
    /\ res.prev.conv = res.conv
    /\ res.prev.size = Capacity
    /\ ~res.hadList
    /\ ~res.changed
    /\ ~HasList(CHAT_DB, res.conv)

(***************************************************************************)
(* C25: a read of a conversation that has no id-list in the store returns  *)
(* the empty sequence, raises no error and leaves the store unchanged.     *)
(***************************************************************************)
C25_ReadOfUnknownIsEmpty ==
    [][(steps' # steps /\ now' = now /\ res'.op = "read" /\ ~HasList(CHAT_DB, res'.conv)) =>
           /\ res'.messages = <<>>
           /\ ~res'.threw
           /\ CHAT_DB' = CHAT_DB]_vars

C25_Witness ==
    /\ res.op = "read"
    /\ res.conv = "c2"
    /\ ~HasList(CHAT_DB, "c2")
    /\ Len(ListOf(CHAT_DB, "c1")) = Capacity
    /\ res.messages = <<>>
    /\ ~res.threw

(***************************************************************************)
(* C27: a read never mutates the store (the id-list and every record are   *)
(* unchanged after it), so the message an append evicts is the oldest in   *)
(* append order (FIFO), whichever messages were read and however often.    *)
(***************************************************************************)
C27_ReadKeepsStoreEvictionIsFifo ==
    [][/\ (steps' # steps /\ now' = now /\ res'.op = "read") => CHAT_DB' = CHAT_DB
       /\ (steps' # steps /\ now' = now /\ res'.op = "append" /\ Len(res'.prior) = Capacity) =>
              LET c == res'.conv
                  oldest == log[c][Len(log[c]) - Capacity + 1]
              IN  /\ Head(res'.prior) = oldest.id
                  /\ ~HasRecord(CHAT_DB', c, oldest.id)
                  /\ ListOf(CHAT_DB', c) = Append(Tail(res'.prior), res'.messages[1].id)]_vars

C27_Witness ==
    /\ res.op = "append"
    /\ res.prev.op = "read"
    /\ res.prev.conv = res.conv
    /\ Len(res.prior) = Capacity
    /\ ~HasRecord(CHAT_DB, res.conv, Head(res.prior))
    /\ Len(ListOf(CHAT_DB, res.conv)) = Capacity

(***************************************************************************)
(* The rate limiter on its own: one identity calling checkRateLimit again  *)
(* and again while the time of the RATE_LIMIT namespace passes.  A         *)
(* window of the identity opens with the request that finds no live        *)
(* counter; win holds the instant of that request (start), the number of   *)
(* requests made since (n) and whether a RATE_LIMIT call failed since      *)
(* (faulted).  res describes the last request: nth and elapsed are its     *)
(* rank in its window and the time since the window opened, sinceFirst     *)
(* the time since the first request of the window that was open before it  *)
(* (-1 when there was none), lifetime the time the counter it found still  *)
(* had to live (0 when it found none), sinceLast the time since the last   *)
(* allowed request before it (win.last, -1 when there was none),           *)
(* kvChanged whether the request modified RATE_LIMIT.                      *)
(***************************************************************************)
RateClients == {"ip1"}

InitRate ==
    /\ CHAT_DB = EmptyDb
    /\ log = PrefillLog(0)
    /\ nextId = 1
    /\ RATE_LIMIT = <<>>
    /\ now = InitNow
    /\ kvTime = 0
    /\ res = InitRes
    /\ win = NoWin
    /\ steps = 0
    /\ faults = 0
    /\ procs = NoProcs
    /\ client = NoClient

RateCheck(ip, fault) ==
    LET r == checkRateLimit(RATE_LIMIT, ip, kvTime, fault)
        live == KvLive(RATE_LIMIT, rateKey(ip), kvTime)
        hit == fault = "get" \/ (fault = "put" /\ r.calls = 2)
        nth == IF live THEN win.n + 1 ELSE 1
        start == IF live THEN win.start ELSE kvTime
        faulted == hit \/ (live /\ win.faulted)
    IN  /\ nth <= MaxRequests
        /\ fault = "none" \/ hit
        /\ RATE_LIMIT' = r.kv
        /\ win' = [start |-> start, n |-> nth, faulted |-> faulted,
                   last |-> IF r.result.allowed THEN kvTime ELSE win.last]
        /\ res' = [op |-> "rate", ip |-> ip, result |-> r.result, calls |-> r.calls,
                   fault |-> fault, nth |-> nth, elapsed |-> kvTime - start,
                   faulted |-> faulted,
                   lifetime |-> IF live THEN RATE_LIMIT[rateKey(ip)].expiration - kvTime ELSE 0,
                   kvChanged |-> r.kv # RATE_LIMIT,
                   sinceFirst |-> IF win.n > 0 THEN kvTime - win.start ELSE -1,
                   sinceLast |-> IF win.last >= 0 THEN kvTime - win.last ELSE -1]
        /\ UNCHANGED <<client, procs, CHAT_DB, now, kvTime, nextId, log, steps, faults>>

KvTick ==
    /\ kvTime + TickStep <= MaxTime
    /\ kvTime' = kvTime + TickStep
    /\ UNCHANGED <<client, procs, CHAT_DB, RATE_LIMIT, now, nextId, res, log, win, steps, faults>>

NextRate ==
    \/ \E ip \in RateClients : \E fault \in {"none"} \cup RateFaults : RateCheck(ip, fault)
    \/ KvTick

SpecRate == InitRate /\ [][NextRate]_vars

(***************************************************************************)
(* C3: of the requests one identity makes inside one 60-unit window, with  *)
(* no failure of the counter store, the first 30 are allowed and the 31st  *)
(* and every later one is rejected with a reset time above zero.           *)
(***************************************************************************)
C3_First30AllowedThenRejected ==
    (res.op = "rate" /\ ~res.faulted /\ res.elapsed < window) =>
        /\ res.nth <= limit => res.result.allowed
        /\ res.nth > limit => (~res.result.allowed /\ res.result.resetTime > 0)

C3_Witness ==
    /\ res.op = "rate"
    /\ ~res.faulted
    /\ res.elapsed < window
    /\ res.nth = limit + 1
    /\ ~res.result.allowed

(***************************************************************************)
(* C4: the counter expires one window length after the first request of    *)
(* the window, so a request that arrives 60 or more time-units after that  *)
(* first request is allowed again, whatever happened inside the window.    *)
(***************************************************************************)
C4_AllowedAgainAfterWindowLength ==
    (res.op = "rate" /\ res.sinceFirst >= window) => res.result.allowed

(***************************************************************************)
(* C12: when checkRateLimit rejects a request, the reset time it reports   *)
(* is the remaining lifetime of the identity's counter (the time until it  *)
(* expires), not the constant window length.                               *)
(***************************************************************************)
C12_ResetTimeIsRemainingLifetime ==
    (res.op = "rate" /\ ~res.result.allowed) => res.result.resetTime = res.lifetime

(***************************************************************************)
(* C13: the limiter has the boundary burst of a fixed window: an identity  *)
(* that used its window up to the end gets the requests it sends at the    *)
(* start of the next window allowed, so that more than 30 requests are     *)
(* allowed within a span shorter than 60 time-units.  The next window      *)
(* starts 60 time-units after the first request of the window: a request   *)
(* that arrives then, less than 60 time-units after the last allowed       *)
(* request, opens a new window and is allowed.                             *)
(***************************************************************************)
C13_BoundaryBurstIsAllowed ==
    (res.op = "rate" /\ ~res.faulted /\ res.sinceFirst >= window
        /\ res.sinceLast >= 0 /\ res.sinceLast < window) =>
        /\ res.result.allowed
        /\ res.nth = 1

(***************************************************************************)
(* C28: a rejected rate-limit check leaves the counter of the identity     *)
(* unchanged, count and expiry alike (it makes no write), so requests made *)
(* while blocked do not prolong the block.                                 *)
(***************************************************************************)
C28_RejectionLeavesCounterUnchanged ==
    (res.op = "rate" /\ ~res.result.allowed) =>
        /\ ~res.kvChanged
        /\ res.calls = 1
        /\ res.lifetime > 0

C28_Witness ==
    /\ res.op = "rate"
    /\ ~res.result.allowed
    /\ res.nth = limit + 2
    /\ res.sinceLast > 0
    /\ ~res.kvChanged
    /\ RATE_LIMIT[rateKey(res.ip)].expiration = win.last + window

(***************************************************************************)
(* The resolvers: sendMessage, clearConversation and the conversation      *)
(* query, called one after the other by one client, with the faults of     *)
(* the two KV namespaces and of the completion API.  faults counts the     *)
(* faults injected so far.  The conversation c1 starts with n messages,    *)
(* the counter of the client with k allowed requests at instant 0.         *)
(***************************************************************************)
ChatPrefills == {0, 3, Capacity - 1, Capacity}

RatePrefills == {0, limit - 1}

PrefillRate(k) ==
    IF k = 0 THEN <<>>
    ELSE (rateKey("ip1") :> [value |-> NumberToString(k), expiration |-> window])

BaseInput ==
    [message |-> 5, conversationId |-> "c1", model |-> "deepseek-chat",
     temperature |-> 7, maxTokens |-> 1000]

ChatInputs ==
    {BaseInput,
     [BaseInput EXCEPT !.model = "unsupported-model"],
     [BaseInput EXCEPT !.message = 0],
     [BaseInput EXCEPT !.message = MaxMessageLength + 1],
     [BaseInput EXCEPT !.conversationId = ""],
     [BaseInput EXCEPT !.temperature = TemperatureMax + 1],
     [BaseInput EXCEPT !.maxTokens = MaxTokensMax + 1]}

OkUpstream ==
    [kind |-> "ok", content |-> 8, hasUsage |-> TRUE,
     usage |-> [present |-> TRUE, prompt_tokens |-> 5, completion_tokens |-> 3, total_tokens |-> 8]]

Upstreams ==
    {OkUpstream, [OkUpstream EXCEPT !.hasUsage = FALSE]}
    \cup {[OkUpstream EXCEPT !.kind = k] : k \in {"network", "status", "noChoices", "noMessage"}}

ChatFaults ==
    {<<"history", "getList">>, <<"history", "getRecord">>}
    \cup {<<"saveUser", f>> : f \in SaveFaults}
    \cup {<<"saveAi", f>> : f \in SaveFaults}

InitChat ==
    \E n \in ChatPrefills, k \in RatePrefills :
        /\ CHAT_DB = Prefill(n)
        /\ log = PrefillLog(n)
        /\ nextId = n + 1
        /\ RATE_LIMIT = PrefillRate(k)
        /\ now = InitNow
        /\ kvTime = 0
        /\ res = InitRes
        /\ win = NoWin
        /\ steps = 0
        /\ faults = 0
        /\ procs = NoProcs
        /\ client = NoClient

Logged(lg, r) ==
    LET c == r.userMessage.conversationId
        withUser == IF r.stage \in {"upstream", "saveAi", "done"}
                    THEN [lg EXCEPT ![c] = Append(@, r.userMessage)] ELSE lg
    IN  IF r.stage = "done" THEN [withUser EXCEPT ![c] = Append(@, r.result.message)]
        ELSE withUser

ChatSend(ip, input, rlFault, fault, upstream, elapsed) ==
    /\ steps < MaxChatSteps
    /\ \E r \in {sendMessage(CHAT_DB, RATE_LIMIT, input, ip, kvTime, now, now + elapsed,
                          nextId, nextId + 1, rlFault, fault, upstream)} :
        LET rlHit == rlFault = "get" \/ (rlFault = "put" /\ r.rateCalls = 2)
            injected == (IF rlHit THEN 1 ELSE 0) + (IF r.threw THEN 1 ELSE 0)
        IN  /\ rlFault = "none" \/ rlHit
            /\ fault = NoFault \/ (r.threw /\ r.stage = fault[1])
            /\ upstream.kind = "ok" \/ r.stage = "upstream"
            /\ r.upstreamCalls = 0 => upstream = OkUpstream
            /\ r.ids < 2 => elapsed = 0
            /\ faults + injected <= MaxFaults
            /\ CHAT_DB' = r.db
            /\ RATE_LIMIT' = r.kv
            /\ now' = (IF r.ids = 2 THEN now + elapsed ELSE now)
            /\ nextId' = nextId + r.ids
            /\ log' = Logged(log, r)
            /\ res' = [op |-> "send"] @@ r @@
                      [conv |-> input.conversationId, input |-> input, ip |-> ip, rlHit |-> rlHit,
                       rlFault |-> rlFault, fault |-> fault,
                       upstream |-> upstream.kind, kvChanged |-> r.kv # RATE_LIMIT,
                       dbChanged |-> r.db # CHAT_DB,
                       prior |-> ListOf(CHAT_DB, input.conversationId)]
            /\ steps' = steps + 1
            /\ faults' = faults + injected
            /\ UNCHANGED <<client, procs, kvTime, win>>

ChatClear(c, fault, k) ==
    LET r == clearConversation(CHAT_DB, c, fault, k)
        try == clearConversationMessages(CHAT_DB, c, fault, k)
    IN  /\ steps < MaxChatSteps
        /\ fault = "none" \/ (try.threw /\ faults < MaxFaults)
        /\ fault # "deleteRecord" => k = 0
        /\ CHAT_DB' = r.db
        /\ log' = (IF try.threw THEN log ELSE [log EXCEPT ![c] = <<>>])
        /\ res' = [op |-> "clearConversation", conv |-> c, threw |-> try.threw,
                   raised |-> r.raised, result |-> r.result, fault |-> fault,
                   prior |-> ListOf(CHAT_DB, c)]
        /\ steps' = steps + 1
        /\ faults' = faults + (IF try.threw THEN 1 ELSE 0)
        /\ UNCHANGED <<client, procs, RATE_LIMIT, now, kvTime, nextId, win>>

ChatQuery(c, fault) ==
    LET r == conversation(CHAT_DB, c, fault)
    IN  /\ steps < MaxChatSteps
        /\ fault = "none" \/ (r.isNull /\ faults < MaxFaults)
        /\ res' = [op |-> "conversation", conv |-> c, threw |-> r.isNull, result |-> r,
                   fault |-> fault, prior |-> ListOf(CHAT_DB, c)]
        /\ steps' = steps + 1
        /\ faults' = faults + (IF r.isNull THEN 1 ELSE 0)
        /\ UNCHANGED <<client, procs, CHAT_DB, RATE_LIMIT, now, kvTime, nextId, log, win>>

(***************************************************************************)
(* The fault scenarios of one request: only the combinations in which the  *)
(* named call is reached, and none once the fault budget is spent.         *)
(***************************************************************************)
OkUpstreams == {u \in Upstreams : u.kind = "ok"}

Scenarios ==
    {[fault |-> NoFault, upstream |-> u] : u \in Upstreams}
    \cup {[fault |-> f, upstream |-> OkUpstream] : f \in {g \in ChatFaults : g[1] # "saveAi"}}
    \cup {[fault |-> f, upstream |-> u] : f \in {g \in ChatFaults : g[1] = "saveAi"}, u \in OkUpstreams}

ScenarioChoices(input) ==
    IF ~validateMessageInput(input).valid THEN {[fault |-> NoFault, upstream |-> OkUpstream]}
    ELSE IF faults < MaxFaults THEN Scenarios
    ELSE {[fault |-> NoFault, upstream |-> u] : u \in OkUpstreams}

RateFaultChoices == IF faults < MaxFaults THEN {"none"} \cup RateFaults ELSE {"none"}

ClearFaultChoices ==
    IF faults < MaxFaults THEN {"none", "getList", "deleteRecord", "deleteList"} ELSE {"none"}

ClearPositions(c, fault) ==
    IF fault = "deleteRecord" THEN {1, 2, Len(ListOf(CHAT_DB, c))} \ {0} ELSE {0}

ChatClockTick == AdvanceClock(MaxChatSteps)

ChatClockStepBack == SetClockBack(MaxChatSteps)

NextChat ==
    \/ \E input \in ChatInputs, rlFault \in RateFaultChoices :
           \E sc \in ScenarioChoices(input), elapsed \in 0..MaxElapsed :
               ChatSend("ip1", input, rlFault, sc.fault, sc.upstream, elapsed)
    \/ \E c \in ConvIds, fault \in ClearFaultChoices :
           \E k \in ClearPositions(c, fault) : ChatClear(c, fault, k)
    \/ \E c \in ConvIds, fault \in {"none", "getList", "getRecord"} : ChatQuery(c, fault)
    \/ ChatClockTick
    \/ ChatClockStepBack

SpecChat == InitChat /\ [][NextChat]_vars

(***************************************************************************)
(* C5: a sendMessage with invalid input (empty message, message longer     *)
(* than 2000 characters, missing conversationId, temperature or maxTokens  *)
(* out of range) returns success=false without reading or writing the      *)
(* rate-limit counter, without touching the conversation store and         *)
(* without an upstream call.                                               *)
(***************************************************************************)
InvalidInput(input) ==
    \/ input.message = 0
    \/ input.message > MaxMessageLength
    \/ input.conversationId = ""
    \/ input.temperature \notin 0..TemperatureMax
    \/ input.maxTokens \notin 1..MaxTokensMax

C5_InvalidInputTouchesNothing ==
    (res.op = "send" /\ InvalidInput(res.input)) =>
        /\ ~res.result.success
        /\ res.rateCalls = 0
        /\ ~res.kvChanged
        /\ ~res.storeTouched
        /\ ~res.dbChanged
        /\ res.upstreamCalls = 0

C7_RateLimiterFailsOpen ==
    (res.op = "send" /\ res.rlHit) =>
        /\ res.rateLimit.allowed
        /\ res.stage # "rateLimit"

C7_Witness ==
    /\ res.op = "send"
    /\ res.rlHit
    /\ res.rlFault = "get"
    /\ res.stage = "done"
    /\ res.result.success

(***************************************************************************)
(* C8: after a sendMessage that returned success=true, a read of the       *)
(* conversation ends with the user message followed by the assistant       *)
(* message; on a fresh conversation the read returns exactly these two.    *)
(***************************************************************************)
C8_UserThenAssistantAreLast ==
    (res.op = "send" /\ res.result.success) =>
        LET ms == getConversationMessages(CHAT_DB, res.conv, "none").value
        IN  /\ Len(ms) >= 2
            /\ ms[Len(ms) - 1] = res.userMessage
            /\ ms[Len(ms)] = res.result.message
            /\ res.prior = <<>> => Len(ms) = 2

(***************************************************************************)
(* C15: the assistant message persisted and returned by a successful       *)
(* sendMessage carries the requested model and a token count equal to the  *)
(* completion token count of the upstream usage when usage is reported,    *)
(* and to estimateTokens of its content when the upstream omits usage.     *)
(***************************************************************************)
C15_TokensFromUsageOrEstimate ==
    (res.op = "send" /\ res.result.success) =>
        LET m == res.result.message
        IN  /\ HasRecord(CHAT_DB, res.conv, m.id)
            /\ CHAT_DB.recs[messageKey(res.conv, m.id)] = m
            /\ m.model = res.input.model
            /\ m.tokens = (IF res.result.usage.present
                           THEN res.result.usage.completion_tokens
                           ELSE estimateTokens(m.content))

(***************************************************************************)
(* C16: when the upstream call fails (rejected fetch, non-success status   *)
(* or malformed payload) after the user message was saved, sendMessage     *)
(* returns success=false, the user message stays persisted, no assistant   *)
(* message is persisted, and a read shows the user message as the last     *)
(* turn.                                                                   *)
(***************************************************************************)
C16_FailedUpstreamLeavesUserTurnLast ==
    (res.op = "send" /\ res.stage = "upstream") =>
        LET ms == getConversationMessages(CHAT_DB, res.conv, "none").value
            u == res.userMessage
        IN  /\ ~res.result.success
            /\ HasRecord(CHAT_DB, res.conv, u.id)
            /\ ListOf(CHAT_DB, res.conv) = LastN(Append(res.prior, u.id), Capacity)
            /\ res.ids = 1
            /\ Len(ms) >= 1
            /\ ms[Len(ms)] = u

(***************************************************************************)
(* The stages a sendMessage entered, input validation left out.            *)
(***************************************************************************)
IsPrefix(s, t) == Len(s) <= Len(t) /\ s = SubSeq(t, 1, Len(s))

StagesOf(trace) == SelectSeq(trace, LAMBDA x : x # "validation")

(***************************************************************************)
(* C17 as stated: within one sendMessage the stages run in the order       *)
(* rate-limit check, append of the user message, read of the history,      *)
(* upstream call, append of the assistant message, response: the user      *)
(* message is appended before the history forwarded to the gateway is      *)
(* read, so the history read ends with it and a failing read of the        *)
(* history finds it already stored.                                        *)
(***************************************************************************)
C17_UserAppendedBeforeHistoryRead ==
    res.op = "send" =>
        /\ IsPrefix(StagesOf(res.trace), <<"rateLimit", "saveUser", "history", "upstream", "saveAi">>)
        /\ res.upstreamCalls = 1 =>
               /\ res.history # <<>>
               /\ res.history[Len(res.history)] = res.userMessage
        /\ res.stage = "history" => HasRecord(CHAT_DB, res.conv, res.userMessage.id)

(***************************************************************************)
(* C17 as amended: within one sendMessage the stages run in the order      *)
(* rate-limit check, read of the history, append of the user message,      *)
(* upstream call, append of the assistant message, response: the history   *)
(* forwarded to the gateway is read before the user message is appended,   *)
(* so it does not hold that message, the prompt is built from it, and a    *)
(* failing read of the history leaves the store as it was.                 *)
(***************************************************************************)
C17_HistoryReadBeforeUserAppend ==
    res.op = "send" =>
        /\ IsPrefix(StagesOf(res.trace), <<"rateLimit", "history", "saveUser", "upstream", "saveAi">>)
        /\ res.upstreamCalls = 1 =>
               /\ \A i \in DOMAIN res.history : res.history[i].id # res.userMessage.id
               /\ \A i \in DOMAIN res.history : \E j \in DOMAIN res.prior : res.history[i].id = res.prior[j]
               /\ Len(res.history) <= Len(res.prior)
               /\ res.prompt = PromptMessages(res.input.message, res.history)
               /\ HasRecord(res.db, res.conv, res.userMessage.id)
        /\ res.stage = "history" => (~res.dbChanged /\ res.ids = 0)
        /\ res.stage = "done" => res.trace[Len(res.trace)] = "saveAi"

C17_Witness ==
    /\ res.op = "send"
    /\ res.stage = "done"
    /\ Len(res.history) = 3
    /\ Len(res.prompt) = 5
    /\ Len(ListOf(CHAT_DB, res.conv)) = 5

(***************************************************************************)
(* C18: when the deletion of a message record fails during                 *)
(* clearConversation, the failure is absorbed and does not block the       *)
(* response: clearConversation still returns success=true.                 *)
(***************************************************************************)
C18_ClearAbsorbsDeleteFailure ==
    (res.op = "clearConversation" /\ res.fault = "deleteRecord") => res.result.success

(***************************************************************************)
(* The supported model identifiers (DEPLOYMENT.md).                        *)
(***************************************************************************)
SupportedModels == {"deepseek-chat", "deepseek-coder"}

(***************************************************************************)
(* C22: a sendMessage whose model is not a supported model identifier is   *)
(* rejected with success=false before any upstream call is made.           *)
(***************************************************************************)
C22_UnsupportedModelIsRejected ==
    (res.op = "send" /\ res.input.model \notin SupportedModels) =>
        /\ ~res.result.success
        /\ res.upstreamCalls = 0

(***************************************************************************)
(* C26: each sendMessage makes at most one upstream completion call: an    *)
(* upstream failure (rejected fetch, non-success status or malformed       *)
(* payload) is not retried within the request.                             *)
(***************************************************************************)
C26_AtMostOneUpstreamCall ==
    res.op = "send" =>
        /\ res.upstreamCalls <= 1
        /\ res.stage = "upstream" => (res.upstreamCalls = 1 /\ ~res.result.success)
        /\ res.stage \in {"saveAi", "done"} => res.upstreamCalls = 1

C26_Witness ==
    /\ res.op = "send"
    /\ res.stage = "upstream"
    /\ res.upstream = "status"
    /\ res.upstreamCalls = 1
    /\ ~res.result.success

(***************************************************************************)
(* C29: in the prompt a sendMessage forwards upstream the current user     *)
(* message appears exactly once, as the last element: the history passed   *)
(* to the gateway never holds the user message of the same request.        *)
(***************************************************************************)
C29_CurrentMessageOnceAndLast ==
    (res.op = "send" /\ res.upstreamCalls >= 1) =>
        LET p == res.prompt
            recent == RecentHistory(res.history)
        IN  /\ p[Len(p)] = [role |-> "user", content |-> res.input.message]
            /\ Len(p) = Len(recent) + 2
            /\ \A i \in DOMAIN recent :
                   /\ recent[i].id # res.userMessage.id
                   /\ p[i + 1].content = recent[i].content
            /\ Cardinality({i \in DOMAIN res.history : res.history[i].id = res.userMessage.id}) = 0

C29_Witness ==
    /\ res.op = "send"
    /\ res.stage = "done"
    /\ Len(res.history) = Capacity
    /\ Len(res.prompt) = HistoryWindow + 2
    /\ res.history[Capacity].id # res.userMessage.id
    /\ res.prompt[HistoryWindow + 2].content = res.input.message

(***************************************************************************)
(* The prompt builder on its own: callDeepSeekAPI applied to the history   *)
(* read from a conversation of n messages and to a current message.        *)
(***************************************************************************)
PromptLengths == {1, 5, MaxMessageLength}

InitPrompt ==
    \E n \in 0..MaxHistory, m \in PromptLengths :
        /\ CHAT_DB = Prefill(n)
        /\ log = PrefillLog(n)
        /\ nextId = n + 1
        /\ RATE_LIMIT = <<>>
        /\ now = InitNow
        /\ kvTime = 0
        /\ res = [op |-> "input", message |-> m]
        /\ win = NoWin
        /\ steps = 0
        /\ faults = 0
        /\ procs = NoProcs
        /\ client = NoClient

PromptCall ==
    /\ res.op = "input"
    /\ \E history \in {getConversationMessages(CHAT_DB, "c1", "none").value} :
           res' = [op |-> "prompt", message |-> res.message, history |-> history,
                   prompt |-> callDeepSeekAPI(res.message, history, "deepseek-chat", 7, 1000,
                                              OkUpstream).requestBody.messages]
    /\ UNCHANGED <<client, procs, CHAT_DB, RATE_LIMIT, now, kvTime, nextId, log, win, steps, faults>>

NextPrompt == PromptCall

SpecPrompt == InitPrompt /\ [][NextPrompt]_vars

(***************************************************************************)
(* The structure of the prompt: the system instruction, then the last      *)
(* min(20, |history|) history messages in history order with their roles   *)
(* in lower case, then the current user message.                           *)
(***************************************************************************)
PromptShape(h, p, message) ==
    LET k == IF Len(h) < 20 THEN Len(h) ELSE 20
    IN  /\ Len(p) = k + 2
        /\ p[1] = [role |-> "system", content |-> SystemPromptLength]
        /\ p[k + 2] = [role |-> "user", content |-> message]
        /\ \A j \in 1..k :
               /\ p[j + 1].content = h[Len(h) - k + j].content
               /\ p[j + 1].role = (IF h[Len(h) - k + j].role = "USER" THEN "user"
                                   ELSE "assistant")

(***************************************************************************)
(* C9 as stated: the prompt sent upstream is the system instruction, then  *)
(* the last min(20, |history|) history messages in history order, then the *)
(* current user message; its length is min(20, |history|) + 2, and a       *)
(* history of 25 messages yields 23 prompt messages.                       *)
(***************************************************************************)
C9_PromptOf25Has23 ==
    res.op = "prompt" =>
        /\ PromptShape(res.history, res.prompt, res.message)
        /\ Len(res.history) = 25 => Len(res.prompt) = 23

(***************************************************************************)
(* C9 as amended: the prompt sent upstream is the system instruction, then *)
(* the last min(20, |history|) history messages in history order, then the *)
(* current user message; its length is min(20, |history|) + 2, and a       *)
(* history of 25 messages yields 22 prompt messages.                       *)
(***************************************************************************)
C9_PromptIsSystemRecentHistoryCurrent ==
    res.op = "prompt" =>
        /\ PromptShape(res.history, res.prompt, res.message)
        /\ Len(res.history) = 25 => Len(res.prompt) = 22

C9_Witness ==
    /\ res.op = "prompt"
    /\ Len(res.history) = 25
    /\ Len(res.prompt) = 22
    /\ res.prompt[2].content = res.history[6].content

(***************************************************************************)
(* The message store with failing KV calls: direct calls of saveMessage,   *)
(* getConversationMessages and clearConversationMessages in which one      *)
(* CHAT_DB call may throw.  An append that throws is not entered in log.   *)
(* res describes the last call: fault is the call that threw, message the  *)
(* message of an append, prior the id-list before the call.                *)
(***************************************************************************)
FaultPrefills == {0, 2, Capacity - 1, Capacity}

InitFaulty ==
    \E n \in FaultPrefills :
        /\ CHAT_DB = Prefill(n)
        /\ log = PrefillLog(n)
        /\ nextId = n + 1
        /\ RATE_LIMIT = <<>>
        /\ now = InitNow
        /\ kvTime = 0
        /\ res = InitRes
        /\ win = NoWin
        /\ steps = 0
        /\ faults = 0
        /\ procs = NoProcs
        /\ client = NoClient

FaultyAppend(c, fault) ==
    LET m == IF nextId % 2 = 1 THEN UserMessage(nextId, c, 5, now)
             ELSE AiMessage(nextId, c, 8, now, "deepseek-chat", 3)
        r == saveMessage(CHAT_DB, m, fault)
    IN  /\ steps < MaxSteps
        /\ fault = "none" \/ (r.threw /\ faults < MaxFaults)
        /\ CHAT_DB' = r.db
        /\ nextId' = nextId + 1
        /\ log' = (IF r.threw THEN log ELSE [log EXCEPT ![c] = Append(@, m)])
        /\ res' = [op |-> "append", conv |-> c, threw |-> r.threw, fault |-> fault,
                   message |-> m, messages |-> <<>>, prior |-> ListOf(CHAT_DB, c)]
        /\ steps' = steps + 1
        /\ faults' = faults + (IF r.threw THEN 1 ELSE 0)
        /\ UNCHANGED <<client, procs, RATE_LIMIT, now, kvTime, win>>

FaultyClear(c, fault, k) ==
    LET r == clearConversationMessages(CHAT_DB, c, fault, k)
    IN  /\ steps < MaxSteps
        /\ fault = "none" \/ (r.threw /\ faults < MaxFaults)
        /\ CHAT_DB' = r.db
        /\ log' = (IF r.threw THEN log ELSE [log EXCEPT ![c] = <<>>])
        /\ res' = [op |-> "clear", conv |-> c, threw |-> r.threw, fault |-> fault,
                   message |-> NoMessage, messages |-> <<>>, prior |-> ListOf(CHAT_DB, c)]
        /\ steps' = steps + 1
        /\ faults' = faults + (IF r.threw THEN 1 ELSE 0)
        /\ UNCHANGED <<client, procs, RATE_LIMIT, now, kvTime, nextId, win>>

FaultyRead(c) ==
    LET r == getConversationMessages(CHAT_DB, c, "none")
    IN  /\ steps < MaxSteps
        /\ res' = [op |-> "read", conv |-> c, threw |-> r.threw, fault |-> "none",
                   message |-> NoMessage, messages |-> r.value, prior |-> ListOf(CHAT_DB, c)]
        /\ steps' = steps + 1
        /\ UNCHANGED <<client, procs, CHAT_DB, RATE_LIMIT, now, kvTime, nextId, log, win, faults>>

NextFaulty ==
    \/ \E c \in ConvIds, fault \in {"none"} \cup SaveFaults : FaultyAppend(c, fault)
    \/ \E c \in ConvIds, fault \in ClearFaultChoices :
           \E k \in ClearPositions(c, fault) : FaultyClear(c, fault, k)
    \/ \E c \in ConvIds : FaultyRead(c)

SpecFaulty == InitFaulty /\ [][NextFaulty]_vars

(***************************************************************************)
(* C11: when an append goes over capacity and the deletion of the evicted  *)
(* record fails, the append still writes the id-list (oldest id removed,   *)
(* new id at the end) and does not abort: the failure is only reported.    *)
(***************************************************************************)
C11_EvictionFailureStillWritesList ==
    (res.op = "append" /\ res.fault = "deleteEvicted") =>
        /\ ~res.threw
        /\ ListOf(CHAT_DB, res.conv) = Append(Tail(res.prior), res.message.id)

(***************************************************************************)
(* C19: after a single failure of a store operation inside an append or a  *)
(* clear, a later clear of the conversation that runs without failure      *)
(* leaves no message record of that conversation in the store.             *)
(***************************************************************************)
C19_CleanClearLeavesNoRecord ==
    (res.op = "clear" /\ ~res.threw) =>
        \A id \in 1..(nextId - 1) : ~HasRecord(CHAT_DB, res.conv, id)

(***************************************************************************)
(* validateMessageInput on its own, applied to one input object.  The      *)
(* schema fills an omitted model, temperature or maxTokens with its        *)
(* default, so the resolver always receives the three fields.              *)
(***************************************************************************)
ValidateInputs ==
    [message : {0, 1, 5, MaxMessageLength, MaxMessageLength + 1},
     conversationId : {"", "c1"},
     model : {"deepseek-chat", "unsupported-model"},
     temperature : {-1, 0, 7, TemperatureMax, TemperatureMax + 1},
     maxTokens : {-1, 0, 1, 1000, MaxTokensMax, MaxTokensMax + 1}]

InitValidate ==
    \E input \in ValidateInputs :
        /\ CHAT_DB = EmptyDb
        /\ log = PrefillLog(0)
        /\ nextId = 1
        /\ RATE_LIMIT = <<>>
        /\ now = InitNow
        /\ kvTime = 0
        /\ res = [op |-> "input", input |-> input]
        /\ win = NoWin
        /\ steps = 0
        /\ faults = 0
        /\ procs = NoProcs
        /\ client = NoClient

ValidateCall ==
    /\ res.op = "input"
    /\ res' = [op |-> "validated", input |-> res.input,
               validation |-> validateMessageInput(res.input)]
    /\ UNCHANGED <<client, procs, CHAT_DB, RATE_LIMIT, now, kvTime, nextId, log, win, steps, faults>>

NextValidate == ValidateCall

SpecValidate == InitValidate /\ [][NextValidate]_vars

(***************************************************************************)
(* C14: validateMessageInput answers valid exactly for the inputs with a   *)
(* non-empty message of at most 2000 characters, a conversationId, a       *)
(* temperature in [0, 2] and a maxTokens in [1, 4000]; every other input,  *)
(* maxTokens = 0 and a message of 2001 characters included, is rejected.   *)
(***************************************************************************)
C14_ValidExactlyInRange ==
    res.op = "validated" => (res.validation.valid <=> ~InvalidInput(res.input))

(***************************************************************************)
(* Concurrent requests on one conversation.  The worker serves requests    *)
(* as asynchronous functions without locking: each await of a CHAT_DB call *)
(* is a suspension point, and the calls of other requests may run between  *)
(* two awaits of one request.  Each action below is one CHAT_DB call       *)
(* together with the synchronous code that follows it up to the next       *)
(* await.  steps counts the operations started.  res describes the last    *)
(* call made: stale tells, for the put of an id-list, that the list in the *)
(* store was no longer the one this request had read, id is the id of the  *)
(* message appended and unseen the ids that were in the stored list but    *)
(* not in the list this request had read (written by others meanwhile).    *)
(***************************************************************************)
MaxRaceOps == 3

RacePrefills == {0, Capacity - 1, Capacity}

InitRace ==
    \E n \in RacePrefills :
        /\ CHAT_DB = Prefill(n)
        /\ log = PrefillLog(n)
        /\ nextId = n + 1
        /\ RATE_LIMIT = <<>>
        /\ now = InitNow
        /\ kvTime = 0
        /\ res = [op |-> "init", proc |-> "", stale |-> FALSE]
        /\ win = NoWin
        /\ steps = 0
        /\ faults = 0
        /\ procs = NoProcs
        /\ client = NoClient

SavePutRecord(p, c) ==
    LET m == IF nextId % 2 = 1 THEN UserMessage(nextId, c, 5, now)
             ELSE AiMessage(nextId, c, 8, now, "deepseek-chat", 3)
    IN  /\ procs[p].pc = "idle"
        /\ steps < MaxRaceOps
        /\ CHAT_DB' = PutRecord(CHAT_DB, m)
        /\ procs' = [procs EXCEPT ![p] = [Idle EXCEPT !.pc = "getList", !.conv = c, !.message = m]]
        /\ nextId' = nextId + 1
        /\ steps' = steps + 1
        /\ res' = [op |-> "putRecord", proc |-> p, stale |-> FALSE]
        /\ UNCHANGED <<client, RATE_LIMIT, now, kvTime, log, win, faults>>

SaveGetList_NoShift(p) ==
    LET l == procs[p]
        existing == ListOf(CHAT_DB, l.conv)
        pushed == Append(existing, l.message.id)
    IN  /\ l.pc = "getList"
        /\ procs' = [procs EXCEPT ![p] = [l EXCEPT !.pc = "putList", !.seen = existing,
                                                   !.messageIds = pushed]]
        /\ res' = [op |-> "getList", proc |-> p, stale |-> FALSE]
        /\ UNCHANGED <<client, CHAT_DB, RATE_LIMIT, now, kvTime, nextId, log, win, steps, faults>>

SaveGetList(p) ==
    LET l == procs[p]
        existing == ListOf(CHAT_DB, l.conv)
        pushed == Append(existing, l.message.id)
        evicts == Len(pushed) > Capacity
    IN  /\ l.pc = "getList"
        /\ procs' = [procs EXCEPT ![p] =
                        [l EXCEPT !.pc = IF evicts THEN "deleteEvicted" ELSE "putList",
                                  !.seen = existing,
                                  !.messageIds = IF evicts THEN Tail(pushed) ELSE pushed,
                                  !.removedId = IF evicts THEN Head(pushed) ELSE 0]]
        /\ res' = [op |-> "getList", proc |-> p, stale |-> FALSE]
        /\ UNCHANGED <<client, CHAT_DB, RATE_LIMIT, now, kvTime, nextId, log, win, steps, faults>>

SaveDeleteEvicted(p) ==
    LET l == procs[p]
    IN  /\ l.pc = "deleteEvicted"
        /\ CHAT_DB' = DeleteRecord(CHAT_DB, l.conv, l.removedId)
        /\ procs' = [procs EXCEPT ![p].pc = "putList"]
        /\ res' = [op |-> "deleteEvicted", proc |-> p, stale |-> FALSE]
        /\ UNCHANGED <<client, RATE_LIMIT, now, kvTime, nextId, log, win, steps, faults>>

Unseen(l) ==
    LET current == ListOf(CHAT_DB, l.conv)
    IN  {current[i] : i \in DOMAIN current} \ {l.seen[i] : i \in DOMAIN l.seen}

SavePutList_Atomic(p) ==
    LET l == procs[p]
    IN  /\ l.pc = "putList"
        /\ CHAT_DB' = PutList(CHAT_DB, l.conv,
                              LastN(Append(ListOf(CHAT_DB, l.conv), l.message.id), Capacity))
        /\ procs' = [procs EXCEPT ![p] = Idle]
        /\ res' = [op |-> "putList", proc |-> p, stale |-> ListOf(CHAT_DB, l.conv) # l.seen,
                   id |-> l.message.id, unseen |-> Unseen(l)]
        /\ UNCHANGED <<client, RATE_LIMIT, now, kvTime, nextId, log, win, steps, faults>>

SavePutList(p) ==
    LET l == procs[p]
    IN  /\ l.pc = "putList"
        /\ CHAT_DB' = PutList(CHAT_DB, l.conv, l.messageIds)
        /\ procs' = [procs EXCEPT ![p] = Idle]
        /\ res' = [op |-> "putList", proc |-> p, stale |-> ListOf(CHAT_DB, l.conv) # l.seen,
                   id |-> l.message.id, unseen |-> Unseen(l)]
        /\ UNCHANGED <<client, RATE_LIMIT, now, kvTime, nextId, log, win, steps, faults>>

ClearGetList(p, c) ==
    LET ids == ListOf(CHAT_DB, c)
        next == IF ~HasList(CHAT_DB, c) THEN Idle
                ELSE [Idle EXCEPT !.pc = IF ids = <<>> THEN "deleteList" ELSE "deleteRecord",
                                  !.conv = c, !.ids = ids, !.i = 1]
    IN  /\ procs[p].pc = "idle"
        /\ steps < MaxRaceOps
        /\ procs' = [procs EXCEPT ![p] = next]
        /\ steps' = steps + 1
        /\ res' = [op |-> "clearGetList", proc |-> p, stale |-> FALSE]
        /\ UNCHANGED <<client, CHAT_DB, RATE_LIMIT, now, kvTime, nextId, log, win, faults>>

ClearDeleteRecord(p) ==
    LET l == procs[p]
    IN  /\ l.pc = "deleteRecord"
        /\ CHAT_DB' = DeleteRecord(CHAT_DB, l.conv, l.ids[l.i])
        /\ procs' = [procs EXCEPT ![p] =
                        [l EXCEPT !.pc = IF l.i = Len(l.ids) THEN "deleteList" ELSE "deleteRecord",
                                  !.i = l.i + 1]]
        /\ res' = [op |-> "deleteRecord", proc |-> p, stale |-> FALSE]
        /\ UNCHANGED <<client, RATE_LIMIT, now, kvTime, nextId, log, win, steps, faults>>

ClearDeleteList(p) ==
    LET l == procs[p]
    IN  /\ l.pc = "deleteList"
        /\ CHAT_DB' = DeleteList(CHAT_DB, l.conv)
        /\ procs' = [procs EXCEPT ![p] = Idle]
        /\ res' = [op |-> "deleteList", proc |-> p, stale |-> FALSE]
        /\ UNCHANGED <<client, RATE_LIMIT, now, kvTime, nextId, log, win, steps, faults>>

NextRace ==
    \/ \E p \in Procs : SavePutRecord(p, "c1")
    \/ \E p \in Procs : SaveGetList(p)
    \/ \E p \in Procs : SaveDeleteEvicted(p)
    \/ \E p \in Procs : SavePutList(p)
    \/ \E p \in Procs : ClearGetList(p, "c1")
    \/ \E p \in Procs : ClearDeleteRecord(p)
    \/ \E p \in Procs : ClearDeleteList(p)

SpecRace == InitRace /\ [][NextRace]_vars

(***************************************************************************)
(* C20: in every reachable state, after any sequence of appends and clears *)
(* on a conversation, the steps of concurrent appends to the conversation  *)
(* interleaved, the id-list stored under conv:<id> has at most 100         *)
(* entries.                                                                *)
(***************************************************************************)
C20_IdListAtMostCapacity ==
    \A key \in DOMAIN CHAT_DB.lists : Len(CHAT_DB.lists[key]) <= Capacity

C20_Witness ==
    /\ res.op = "putList"
    /\ res.stale
    /\ Len(ListOf(CHAT_DB, "c1")) = Capacity
    /\ \E p \in Procs : procs[p].pc = "putList" /\ Len(procs[p].messageIds) = Capacity

(***************************************************************************)
(* C23: the read-modify-write of the id-list by an append is not atomic.   *)
(* An append writes the list it read plus its own id, so every id another  *)
(* append put into the list between that read and that write is            *)
(* overwritten: a read after the two appends returns the message of the    *)
(* later writer and not the message of the other, whose record is still    *)
(* stored.                                                                 *)
(***************************************************************************)
ReadIds(c) ==
    LET ms == getConversationMessages(CHAT_DB, c, "none").value
    IN  {ms[i].id : i \in DOMAIN ms}

C23_OverlappingAppendIsOverwritten ==
    res.op = "putList" =>
        /\ res.id \in ReadIds("c1")
        /\ \A id \in res.unseen : id \notin ReadIds("c1")

C23_Witness ==
    /\ res.op = "putList"
    /\ \A p \in Procs : procs[p].pc = "idle"
    /\ steps = 2
    /\ res.unseen # {}
    /\ \A id \in res.unseen : HasRecord(CHAT_DB, "c1", id) /\ id \notin ReadIds("c1")
    /\ res.id \in ReadIds("c1")

(***************************************************************************)
(* Concurrent requests of one identity in checkRateLimit: the get of the   *)
(* counter and the put of the incremented counter are two awaits, and      *)
(* other requests may run between them.  The counter starts with k         *)
(* requests counted at instant 0.  win.start is the instant of the first   *)
(* allowed request of the current span of one window length, win.n the     *)
(* number of requests allowed in that span.  res describes the last call:  *)
(* count is the count the request had read, stored the count in the store  *)
(* just before its put.                                                    *)
(***************************************************************************)
MaxRateOps == 3

InitRateRace ==
    \E k \in {0, limit - 2, limit - 1} :
        /\ CHAT_DB = EmptyDb
        /\ log = PrefillLog(0)
        /\ nextId = 1
        /\ RATE_LIMIT = PrefillRate(k)
        /\ now = InitNow
        /\ kvTime = 0
        /\ res = [op |-> "init", proc |-> "", allowed |-> TRUE, count |-> 0, stored |-> 0]
        /\ win = [NoWin EXCEPT !.n = k]
        /\ steps = 0
        /\ faults = 0
        /\ procs = NoProcs
        /\ client = NoClient

StoredCount(ip) ==
    IF KvLive(RATE_LIMIT, rateKey(ip), kvTime) THEN ParseInt(RATE_LIMIT[rateKey(ip)].value) ELSE 0

RateGet(p, ip) ==
    LET count == StoredCount(ip)
    IN  /\ procs[p].pc = "idle"
        /\ steps < MaxRateOps
        /\ procs' = [procs EXCEPT ![p] =
                        IF count >= limit THEN Idle
                        ELSE [Idle EXCEPT !.pc = "ratePut", !.clientIP = ip, !.count = count]]
        /\ res' = [op |-> "rateGet", proc |-> p, allowed |-> count < limit, count |-> count,
                   stored |-> count]
        /\ steps' = steps + 1
        /\ UNCHANGED <<client, CHAT_DB, RATE_LIMIT, now, kvTime, nextId, log, win, faults>>

RatePut_Atomic(p) ==
    LET l == procs[p]
        inSpan == win.n > 0 /\ kvTime < win.start + window
    IN  /\ l.pc = "ratePut"
        /\ RATE_LIMIT' = KvPutTtl(RATE_LIMIT, rateKey(l.clientIP), NumberToString(StoredCount(l.clientIP) + 1),
                                  kvTime, window)
        /\ procs' = [procs EXCEPT ![p] = Idle]
        /\ win' = [win EXCEPT !.start = IF inSpan THEN win.start ELSE kvTime,
                              !.n = IF inSpan THEN win.n + 1 ELSE 1,
                              !.last = kvTime]
        /\ res' = [op |-> "ratePut", proc |-> p, allowed |-> TRUE, count |-> l.count,
                   stored |-> StoredCount(l.clientIP)]
        /\ UNCHANGED <<client, CHAT_DB, now, kvTime, nextId, log, steps, faults>>

RatePut(p) ==
    LET l == procs[p]
        inSpan == win.n > 0 /\ kvTime < win.start + window
    IN  /\ l.pc = "ratePut"
        /\ RATE_LIMIT' = KvPutTtl(RATE_LIMIT, rateKey(l.clientIP), NumberToString(l.count + 1), kvTime, window)
        /\ procs' = [procs EXCEPT ![p] = Idle]
        /\ win' = [win EXCEPT !.start = IF inSpan THEN win.start ELSE kvTime,
                              !.n = IF inSpan THEN win.n + 1 ELSE 1,
                              !.last = kvTime]
        /\ res' = [op |-> "ratePut", proc |-> p, allowed |-> TRUE, count |-> l.count,
                   stored |-> StoredCount(l.clientIP)]
        /\ UNCHANGED <<client, CHAT_DB, now, kvTime, nextId, log, steps, faults>>

NextRateRace ==
    \/ \E p \in Procs : RateGet(p, "ip1")
    \/ \E p \in Procs : RatePut(p)
    \/ KvTick

SpecRateRace == InitRateRace /\ [][NextRateRace]_vars

(***************************************************************************)
(* C24: the increment of the rate counter is not atomic.  A check that     *)
(* read a count below 30 is allowed and writes that count plus one,        *)
(* whatever was written to the counter since it read it; two checks that   *)
(* read the same count both write count + 1, so that more than 30          *)
(* requests are allowed within one window.                                 *)
(***************************************************************************)
C24_IncrementWritesReadCountPlusOne ==
    res.op = "ratePut" =>
        /\ res.allowed
        /\ res.count < limit
        /\ ParseInt(RATE_LIMIT[rateKey("ip1")].value) = res.count + 1

C24_Witness ==
    /\ res.op = "ratePut"
    /\ res.stored = res.count + 1
    /\ win.n > limit
    /\ kvTime < win.start + window
    /\ ParseInt(RATE_LIMIT[rateKey("ip1")].value) = limit

(***************************************************************************)
(* Two conversations and two identities side by side: direct calls of      *)
(* saveMessage, getConversationMessages, clearConversationMessages and     *)
(* checkRateLimit, each possibly with one failing store call.  One         *)
(* conversation id is a prefix of the other and holds the separator of     *)
(* the key templates.  res names the last call and its target.             *)
(***************************************************************************)
MaxIsoOps == 3

IsoConvIds == {"c1", "c1:1"}

IsoClients == {"ip1", "ip1:1"}

IsoPrefills == {0, 3, Capacity}

InitIso ==
    \E n \in IsoPrefills, k \in RatePrefills :
        /\ CHAT_DB = Prefill(n)
        /\ log = PrefillLog(n)
        /\ nextId = n + 1
        /\ RATE_LIMIT = PrefillRate(k)
        /\ now = InitNow
        /\ kvTime = 0
        /\ res = InitRes
        /\ win = NoWin
        /\ steps = 0
        /\ faults = 0
        /\ procs = NoProcs
        /\ client = NoClient

IsoAppend(c, fault) ==
    LET m == IF nextId % 2 = 1 THEN UserMessage(nextId, c, 5, now)
             ELSE AiMessage(nextId, c, 8, now, "deepseek-chat", 3)
        r == saveMessage(CHAT_DB, m, fault)
    IN  /\ steps < MaxIsoOps
        /\ fault = "none" \/ r.threw
        /\ CHAT_DB' = r.db
        /\ nextId' = nextId + 1
        /\ res' = [op |-> "append", conv |-> c, ip |-> "", threw |-> r.threw, fault |-> fault]
        /\ steps' = steps + 1
        /\ UNCHANGED <<client, procs, RATE_LIMIT, now, kvTime, log, win, faults>>

IsoRead(c) ==
    LET r == getConversationMessages(CHAT_DB, c, "none")
    IN  /\ steps < MaxIsoOps
        /\ res' = [op |-> "read", conv |-> c, ip |-> "", threw |-> r.threw, fault |-> "none"]
        /\ steps' = steps + 1
        /\ UNCHANGED <<client, procs, CHAT_DB, RATE_LIMIT, now, kvTime, nextId, log, win, faults>>

IsoClear(c, fault) ==
    LET r == clearConversationMessages(CHAT_DB, c, fault, 1)
    IN  /\ steps < MaxIsoOps
        /\ fault = "none" \/ r.threw
        /\ CHAT_DB' = r.db
        /\ res' = [op |-> "clear", conv |-> c, ip |-> "", threw |-> r.threw, fault |-> fault]
        /\ steps' = steps + 1
        /\ UNCHANGED <<client, procs, RATE_LIMIT, now, kvTime, nextId, log, win, faults>>

IsoRate(ip, fault) ==
    LET r == checkRateLimit(RATE_LIMIT, ip, kvTime, fault)
    IN  /\ steps < MaxIsoOps
        /\ fault = "none" \/ fault = "get" \/ r.calls = 2
        /\ RATE_LIMIT' = r.kv
        /\ res' = [op |-> "rate", conv |-> "", ip |-> ip, threw |-> FALSE, fault |-> fault]
        /\ steps' = steps + 1
        /\ UNCHANGED <<client, procs, CHAT_DB, now, kvTime, nextId, log, win, faults>>

IsoTick ==
    /\ steps < MaxIsoOps
    /\ kvTime' = kvTime + window
    /\ now' = now + window * MsPerSecond
    /\ steps' = steps + 1
    /\ UNCHANGED <<client, procs, CHAT_DB, RATE_LIMIT, nextId, res, log, win, faults>>

NextIso ==
    \/ \E c \in IsoConvIds, fault \in {"none"} \cup SaveFaults : IsoAppend(c, fault)
    \/ \E c \in IsoConvIds : IsoRead(c)
    \/ \E c \in IsoConvIds, fault \in {"none", "getList", "deleteRecord", "deleteList"} :
           IsoClear(c, fault)
    \/ \E ip \in IsoClients, fault \in {"none"} \cup RateFaults : IsoRate(ip, fault)
    \/ IsoTick

SpecIso == InitIso /\ [][NextIso]_vars

(***************************************************************************)
(* C30: conversations are isolated.  An append, a read or a clear on       *)
(* conversation A leaves the id-list and every message record of any       *)
(* other conversation B unchanged, and a rate-limit check for identity X   *)
(* leaves the counter of any other identity Y unchanged.                   *)
(***************************************************************************)
SameList(b) ==
    /\ HasList(CHAT_DB', b) = HasList(CHAT_DB, b)
    /\ ListOf(CHAT_DB', b) = ListOf(CHAT_DB, b)

SameRecords(b) ==
    /\ \A id \in 1..nextId :
           /\ HasRecord(CHAT_DB', b, id) = HasRecord(CHAT_DB, b, id)
           /\ HasRecord(CHAT_DB, b, id) =>
                  CHAT_DB'.recs[messageKey(b, id)] = CHAT_DB.recs[messageKey(b, id)]
    /\ {key \in DOMAIN CHAT_DB'.recs : CHAT_DB'.recs[key].conversationId = b}
           = {key \in DOMAIN CHAT_DB.recs : CHAT_DB.recs[key].conversationId = b}

SameCounter(y) ==
    /\ (rateKey(y) \in DOMAIN RATE_LIMIT') = (rateKey(y) \in DOMAIN RATE_LIMIT)
    /\ rateKey(y) \in DOMAIN RATE_LIMIT => RATE_LIMIT'[rateKey(y)] = RATE_LIMIT[rateKey(y)]

C30_ConversationsAreIsolated ==
    [][(steps' # steps /\ kvTime' = kvTime) =>
           /\ res'.op \in {"append", "read", "clear"} =>
                  \A b \in IsoConvIds \ {res'.conv} : SameList(b) /\ SameRecords(b)
           /\ res'.op = "rate" =>
                  \A y \in IsoClients \ {res'.ip} : SameCounter(y)]_vars

C30_Witness ==
    /\ res.op = "append"
    /\ res.conv = "c1:1"
    /\ ~res.threw
    /\ Len(ListOf(CHAT_DB, "c1")) = Capacity
    /\ Len(ListOf(CHAT_DB, "c1:1")) = 1
    /\ \A i \in 1..Capacity : HasRecord(CHAT_DB, "c1", i)
    /\ rateKey("ip1") \in DOMAIN RATE_LIMIT
    /\ rateKey("ip1:1") \in DOMAIN RATE_LIMIT

(***************************************************************************)
(* A clearConversation overlapping a sendMessage on one conversation.  A   *)
(* sendMessage reads the history, saves the user message (saveMessage,     *)
(* one step per CHAT_DB call), awaits the completion API and, when that    *)
(* answered, saves the reply; the calls of a clearConversation, which the  *)
(* client can issue while a send is loading, may run between any two of   *)
(* these steps.  log lists the requests in the order they started: kind,   *)
(* the process serving it, done (it has returned) and, for a send, ids:    *)
(* the ids of the messages it has saved.                                   *)
(***************************************************************************)
MaxOverlapOps == 2

OverlapPrefills == {0, 3, Capacity}

InitOverlap ==
    \E n \in OverlapPrefills :
        /\ CHAT_DB = Prefill(n)
        /\ log = <<>>
        /\ nextId = n + 1
        /\ RATE_LIMIT = <<>>
        /\ now = InitNow
        /\ kvTime = 0
        /\ res = [op |-> "init", proc |-> "", stale |-> FALSE]
        /\ win = NoWin
        /\ steps = 0
        /\ faults = 0
        /\ procs = NoProcs
        /\ client = NoClient

CurrentOp(p) == CHOOSE k \in DOMAIN log : log[k].proc = p /\ \A j \in DOMAIN log : log[j].proc = p => j <= k

Returned(p) == [log EXCEPT ![CurrentOp(p)].done = TRUE]

SendStart(p, c) ==
    /\ procs[p].pc = "idle"
    /\ steps < MaxOverlapOps
    /\ procs' = [procs EXCEPT ![p] = [Idle EXCEPT !.pc = "putRecord", !.conv = c, !.stage = "user"]]
    /\ log' = Append(log, [kind |-> "send", proc |-> p, done |-> FALSE, ids |-> {}])
    /\ steps' = steps + 1
    /\ res' = [op |-> "sendStart", proc |-> p, stale |-> FALSE]
    /\ UNCHANGED <<client, CHAT_DB, RATE_LIMIT, now, kvTime, nextId, win, faults>>

SendPutRecord(p) ==
    LET l == procs[p]
        m == IF l.stage = "user" THEN UserMessage(nextId, l.conv, 5, now)
             ELSE AiMessage(nextId, l.conv, 8, now, "deepseek-chat", 3)
    IN  /\ l.pc = "putRecord"
        /\ CHAT_DB' = PutRecord(CHAT_DB, m)
        /\ procs' = [procs EXCEPT ![p] = [l EXCEPT !.pc = "getList", !.message = m]]
        /\ nextId' = nextId + 1
        /\ log' = [log EXCEPT ![CurrentOp(p)].ids = @ \cup {m.id}]
        /\ res' = [op |-> "putRecord", proc |-> p, stale |-> FALSE]
        /\ UNCHANGED <<client, RATE_LIMIT, now, kvTime, win, steps, faults>>

SendPutList(p) ==
    LET l == procs[p]
    IN  /\ l.pc = "putList"
        /\ l.stage # ""
        /\ CHAT_DB' = PutList(CHAT_DB, l.conv, l.messageIds)
        /\ procs' = [procs EXCEPT ![p] = IF l.stage = "user" THEN [l EXCEPT !.pc = "upstream"]
                                         ELSE Idle]
        /\ log' = (IF l.stage = "user" THEN log ELSE Returned(p))
        /\ res' = [op |-> "putList", proc |-> p, stale |-> ListOf(CHAT_DB, l.conv) # l.seen]
        /\ UNCHANGED <<client, RATE_LIMIT, now, kvTime, nextId, win, steps, faults>>

SendCallUpstream(p, ok) ==
    LET l == procs[p]
    IN  /\ l.pc = "upstream"
        /\ procs' = [procs EXCEPT ![p] = IF ok THEN [l EXCEPT !.pc = "putRecord", !.stage = "ai"]
                                         ELSE Idle]
        /\ log' = (IF ok THEN log ELSE Returned(p))
        /\ res' = [op |-> "upstream", proc |-> p, stale |-> FALSE]
        /\ UNCHANGED <<client, CHAT_DB, RATE_LIMIT, now, kvTime, nextId, win, steps, faults>>

ClearStart(p, c) ==
    LET ids == ListOf(CHAT_DB, c)
        next == IF ~HasList(CHAT_DB, c) THEN Idle
                ELSE [Idle EXCEPT !.pc = IF ids = <<>> THEN "deleteList" ELSE "deleteRecord",
                                  !.conv = c, !.ids = ids, !.i = 1]
    IN  /\ procs[p].pc = "idle"
        /\ steps < MaxOverlapOps
        /\ procs' = [procs EXCEPT ![p] = next]
        /\ log' = Append(log, [kind |-> "clear", proc |-> p, done |-> ~HasList(CHAT_DB, c),
                               ids |-> {}])
        /\ steps' = steps + 1
        /\ res' = [op |-> "clearGetList", proc |-> p, stale |-> FALSE]
        /\ UNCHANGED <<client, CHAT_DB, RATE_LIMIT, now, kvTime, nextId, win, faults>>

ClearFinish(p) ==
    LET l == procs[p]
    IN  /\ l.pc = "deleteList"
        /\ CHAT_DB' = DeleteList(CHAT_DB, l.conv)
        /\ procs' = [procs EXCEPT ![p] = Idle]
        /\ log' = Returned(p)
        /\ res' = [op |-> "deleteList", proc |-> p, stale |-> FALSE]
        /\ UNCHANGED <<client, RATE_LIMIT, now, kvTime, nextId, win, steps, faults>>

NextOverlap ==
    \/ \E p \in Procs : SendStart(p, "c1")
    \/ \E p \in Procs : SendPutRecord(p)
    \/ \E p \in Procs : SaveGetList(p)
    \/ \E p \in Procs : SaveDeleteEvicted(p)
    \/ \E p \in Procs : SendPutList(p)
    \/ \E p \in Procs, ok \in BOOLEAN : SendCallUpstream(p, ok)
    \/ \E p \in Procs : ClearStart(p, "c1")
    \/ \E p \in Procs : ClearDeleteRecord(p)
    \/ \E p \in Procs : ClearFinish(p)

SpecOverlap == InitOverlap /\ [][NextOverlap]_vars

(***************************************************************************)
(* C31: a clearConversation that runs while a sendMessage for the same     *)
(* conversation is in flight still clears it.  Once a clearConversation    *)
(* has returned success and every sendMessage started before it has        *)
(* returned, a read of the conversation returns no message saved by a      *)
(* send that started before the clear.                                     *)
(***************************************************************************)
SendsBefore(k) == {j \in 1..(k - 1) : log[j].kind = "send"}

C31_ClearDuringSendStillClears ==
    \A k \in DOMAIN log :
        (/\ log[k].kind = "clear"
         /\ log[k].done
         /\ \A j \in SendsBefore(k) : log[j].done)
            => \A j \in SendsBefore(k) : log[j].ids \cap ReadIds("c1") = {}

(***************************************************************************)
(* The chat component of the browser.  The component function runs again   *)
(* on every state change, and each run creates its handlers anew: an       *)
(* invocation of handleSendMessage reads conversationId, inputValue and    *)
(* isLoading as constants of the render it was created in, whatever the    *)
(* setters do afterwards.  A call of client.calls holds these captured     *)
(* values, its position (pc: "init" awaiting initializeChat, "sending"     *)
(* awaiting the sendMessage request, "returned") and, for the claims,      *)
(* reinit (the outcome of the initializeChat it awaited), createdId (the   *)
(* conversation id that initializeChat set) and sentTo (the conversation   *)
(* id of the request it posted).  The server is the outcome of each        *)
(* request: ok or not.                                                     *)
(***************************************************************************)
MaxCalls == 2

InputTexts == {<<>>, <<" ">>, <<"h", "i">>, <<" ", "h", "i", " ">>}

RECURSIVE TrimStart(_)
TrimStart(text) == IF text # <<>> /\ Head(text) = " " THEN TrimStart(Tail(text)) ELSE text

RECURSIVE TrimEnd(_)
TrimEnd(text) ==
    IF text # <<>> /\ text[Len(text)] = " " THEN TrimEnd(SubSeq(text, 1, Len(text) - 1)) ELSE text

Trim(text) == TrimEnd(TrimStart(text))

generateConversationId(n) == "conv_" \o ToString(n)

WithoutTyping(messages) == SelectSeq(messages, LAMBDA m : m.id # "typing")

initializeChat(cl, ok) ==
    IF ok
    THEN [cl EXCEPT !.conversationId = generateConversationId(cl.created + 1),
                    !.created = @ + 1,
                    !.messages = <<[id |-> "welcome", role |-> "ASSISTANT"]>>]
    ELSE [cl EXCEPT !.error = "connect",
                    !.messages = <<[id |-> "offline", role |-> "ASSISTANT"]>>]

InitClient ==
    /\ client = [NoClient EXCEPT !.mount = "pending"]
    /\ CHAT_DB = EmptyDb
    /\ log = PrefillLog(0)
    /\ nextId = 1
    /\ RATE_LIMIT = <<>>
    /\ now = InitNow
    /\ kvTime = 0
    /\ res = InitRes
    /\ win = NoWin
    /\ steps = 0
    /\ faults = 0
    /\ procs = NoProcs

Server == <<CHAT_DB, RATE_LIMIT, now, kvTime, nextId, res, log, win, steps, faults, procs>>

MountInitializeChat(ok) ==
    /\ client.mount = "pending"
    /\ client' = [initializeChat(client, ok) EXCEPT !.mount = "done"]
    /\ UNCHANGED Server

InputChange(text) ==
    /\ ~client.isLoading
    /\ text # client.inputValue
    /\ client' = [client EXCEPT !.inputValue = text]
    /\ UNCHANGED Server

(***************************************************************************)
(* handleSendMessage from the construction of userMessage to the await of  *)
(* the sendMessage request, for the invocation call.                       *)
(***************************************************************************)
PostMessage(cl, call) ==
    LET content == Trim(call.inputValue)
        request == [message |-> content, conversationId |-> call.conversationId,
                    model |-> "deepseek-chat", temperature |-> 7, maxTokens |-> 1000]
    IN  [cl EXCEPT !.messages = @ \o <<[id |-> "user", role |-> "USER"],
                                       [id |-> "typing", role |-> "ASSISTANT"]>>,
                   !.inputValue = <<>>,
                   !.isLoading = TRUE,
                   !.error = "",
                   !.requests = Append(@, request)]

Posted(call) == [call EXCEPT !.pc = "sending", !.sentTo = call.conversationId]

handleSendMessage ==
    LET call == [pc |-> "returned", conversationId |-> client.conversationId,
                 inputValue |-> client.inputValue, isLoading |-> client.isLoading,
                 reinit |-> "none", createdId |-> "", sentTo |-> ""]
    IN  /\ Len(client.calls) < MaxCalls
        /\ client' =
               IF Trim(call.inputValue) = <<>> \/ call.isLoading
               THEN [client EXCEPT !.calls = Append(@, call)]
               ELSE IF call.conversationId = ""
               THEN [client EXCEPT !.calls = Append(@, [call EXCEPT !.pc = "init"])]
               ELSE [PostMessage(client, call) EXCEPT !.calls = Append(@, Posted(call))]
        /\ UNCHANGED Server

handleSendMessageInitialized(k, ok) ==
    LET call == client.calls[k]
        cl == initializeChat(client, ok)
        awaited == [call EXCEPT !.reinit = IF ok THEN "ok" ELSE "failed",
                                !.createdId = IF ok THEN cl.conversationId ELSE ""]
    IN  /\ k \in DOMAIN client.calls
        /\ call.pc = "init"
        /\ client' =
               IF call.conversationId = ""
               THEN [cl EXCEPT !.calls[k] = [awaited EXCEPT !.pc = "returned"]]
               ELSE [PostMessage(cl, awaited) EXCEPT !.calls[k] = Posted(awaited)]
        /\ UNCHANGED Server

handleSendMessageAnswered(k, ok) ==
    LET call == client.calls[k]
        answer == IF ok THEN [id |-> "reply", role |-> "ASSISTANT"]
                  ELSE [id |-> "error", role |-> "ASSISTANT"]
    IN  /\ k \in DOMAIN client.calls
        /\ call.pc = "sending"
        /\ client' = [client EXCEPT !.messages = Append(WithoutTyping(@), answer),
                                    !.error = IF ok THEN @ ELSE "send",
                                    !.isLoading = FALSE,
                                    !.calls[k].pc = "returned"]
        /\ UNCHANGED Server

NextClient ==
    \/ \E ok \in BOOLEAN : MountInitializeChat(ok)
    \/ \E text \in InputTexts : InputChange(text)
    \/ handleSendMessage
    \/ \E k \in 1..MaxCalls, ok \in BOOLEAN : handleSendMessageInitialized(k, ok)
    \/ \E k \in 1..MaxCalls, ok \in BOOLEAN : handleSendMessageAnswered(k, ok)

SpecClient == InitClient /\ [][NextClient]_vars

(***************************************************************************)
(* C32: when the user sends a message while no conversation id is set,     *)
(* handleSendMessage re-initializes the chat and, if that initialization   *)
(* succeeds, goes on in the same invocation to send the message to the     *)
(* server with the new conversation id.                                    *)
(***************************************************************************)
C32_SendsAfterReinitialization ==
    \A k \in DOMAIN client.calls :
        client.calls[k].reinit = "ok" =>
            /\ client.calls[k].createdId # ""
            /\ client.calls[k].sentTo = client.calls[k].createdId

====
